---- MODULE Spec2Model ----
(***************************************************************************)
(* Model of the `env push` command of the Hydrogen CLI                     *)
(* (packages/cli/src/commands/hydrogen/env/push__unstable.ts): the .env    *)
(* parser parseEnvFile with its LINE regular expression, and the           *)
(* runEnvPush workflow that reconciles the local file with the remote      *)
(* variables of an environment.                                            *)
(*                                                                         *)
(* A text is a sequence of characters.  A character is a one-element       *)
(* token: the characters the regular expressions treat specially have the  *)
(* names below, every other token ("A", "x", "1", "_") is a word           *)
(* character (\w).                                                         *)
(*   NL  line feed          CR  carriage return     SP  space              *)
(*   BS  backslash          DQ  double quote        SQ  single quote       *)
(*   BT  backtick           HASH  #                 EQ  =                  *)
(*   COLON  :               DOT  .                  DASH  -                *)
(***************************************************************************)
EXTENDS Integers, Sequences, FiniteSets, TLC

----------------------------------------------------------------------------
(* Character classes of the regular expressions                            *)

LineTerm == {"NL", "CR"}

WhiteSpace == {"SP", "TAB", "NL", "CR"}

Quotes == {"SQ", "DQ", "BT"}

NonWord == WhiteSpace \cup Quotes \cup {"BS", "HASH", "EQ", "COLON", "DOT", "DASH"}

\* the characters outside [\w.-]
NonKey == NonWord \ {"DOT", "DASH"}

Digits == {"0", "1", "2", "3", "4", "5", "6", "7", "8", "9"}

Max(S) == CHOOSE x \in S : \A y \in S : y <= x

Min(S) == CHOOSE x \in S : \A y \in S : x <= y

\* end (exclusive) of the longest run of characters of C that starts at i
RunEndIn(s, i, C) ==
  Min({j \in i..(Len(s) + 1) : j = Len(s) + 1 \/ s[j] \notin C})

\* end (exclusive) of the longest run of characters outside C that starts at i
RunEndNotIn(s, i, C) ==
  Min({j \in i..(Len(s) + 1) : j = Len(s) + 1 \/ s[j] \in C})

\* ^ under the m flag
LineStart(s, i) == i = 1 \/ s[i - 1] \in LineTerm

\* $ under the m flag
LineEnd(s, i) == i = Len(s) + 1 \/ s[i] \in LineTerm

----------------------------------------------------------------------------
\* The LINE regular expression
\*   /(?:^|^)\s*(?:export\s+)?([\w.-]+)(?:\s*=\s*?|:\s+?)
\*    (\s*'(?:\\'|[^'])*'|\s*"(?:\\"|[^"])*"|\s*`(?:\\`|[^`])*`|[^#\r\n]+)?
\*    \s*(?:#.*)?(?:$|$)/mg
\* piece by piece, from its end to its start.  Positions are 1-based and
\* name the next character to read.  Each piece is the table, over the
\* positions of the text s, of what the expression from that piece on
\* matches there; a piece tries its alternatives in the backtracking order
\* of the expression (a greedy quantifier the longest first, a lazy one
\* the shortest first) and takes the first on which the rest matches.

Positions(s) == 1..(Len(s) + 1)

\* \s*(?:#.*)?(?:$|$) at j: the end of the match, or 0 for no match
LineRest(s) ==
  [j \in Positions(s) |->
     LET end == [k \in j..RunEndIn(s, j, WhiteSpace) |->
                   IF k <= Len(s) /\ s[k] = "HASH"
                   THEN RunEndNotIn(s, k + 1, LineTerm)
                   ELSE IF LineEnd(s, k) THEN k ELSE 0]
         ks  == {k \in DOMAIN end : end[k] # 0}
     IN  IF ks = {} THEN 0 ELSE end[Max(ks)]]

\* the positions of a closing quote for '(?:\\'|[^'])*' opened at q
QuotedClosers(s, q) ==
  {c \in (q + 1)..Len(s) :
     /\ s[c] = s[q]
     /\ \A p \in (q + 1)..(c - 1) : s[p] = s[q] => (p - 1 > q /\ s[p - 1] = "BS")}

NoMatch == [ok |-> FALSE, key |-> <<>>, hasValue |-> FALSE, value |-> <<>>, end |-> 0]

Matched(hasValue, value, end) ==
  [ok |-> TRUE, key |-> <<>>, hasValue |-> hasValue, value |-> value, end |-> end]

\* group 2 and the rest of the expression at v:
\* (\s*'...'|\s*"..."|\s*`...`|[^#\r\n]+)?\s*(?:#.*)?(?:$|$)
ValueAt(s, rest) ==
  [v \in Positions(s) |->
     LET q  == RunEndIn(s, v, WhiteSpace)
         cs == IF q <= Len(s) /\ s[q] \in Quotes
               THEN {c \in QuotedClosers(s, q) : rest[c + 1] # 0}
               ELSE {}
         us == {u \in (v + 1)..RunEndNotIn(s, v, {"HASH", "CR", "NL"}) : rest[u] # 0}
     IN  IF cs # {} THEN Matched(TRUE, SubSeq(s, v, Max(cs)), rest[Max(cs) + 1])
         ELSE IF us # {} THEN Matched(TRUE, SubSeq(s, v, Max(us) - 1), rest[Max(us)])
         ELSE IF rest[v] # 0 THEN Matched(FALSE, <<>>, rest[v])
         ELSE NoMatch]

\* (?:\s*=\s*?|:\s+?) and the rest at e
SeparatorAt(s, value) ==
  [e \in Positions(s) |->
     LET w   == RunEndIn(s, e, WhiteSpace)
         vs1 == IF w <= Len(s) /\ s[w] = "EQ"
                THEN {v \in (w + 1)..RunEndIn(s, w + 1, WhiteSpace) : value[v].ok}
                ELSE {}
         vs2 == IF e <= Len(s) /\ s[e] = "COLON"
                THEN {v \in (e + 2)..RunEndIn(s, e + 1, WhiteSpace) : value[v].ok}
                ELSE {}
     IN  IF vs1 # {} THEN value[Min(vs1)]
         ELSE IF vs2 # {} THEN value[Min(vs2)]
         ELSE NoMatch]

\* ([\w.-]+) and the rest at k
KeyAt(s, separator) ==
  [k \in Positions(s) |->
     LET es == {e \in (k + 1)..RunEndNotIn(s, k, NonKey) : separator[e].ok}
     IN  IF es = {} THEN NoMatch
         ELSE [separator[Max(es)] EXCEPT !.key = SubSeq(s, k, Max(es) - 1)]]

ExportWord == <<"e", "x", "p", "o", "r", "t">>

\* (?:export\s+)? and the rest at x
ExportAt(s, key) ==
  [x \in Positions(s) |->
     LET ys == IF x + 5 <= Len(s) /\ SubSeq(s, x, x + 5) = ExportWord
               THEN {y \in (x + 7)..RunEndIn(s, x + 6, WhiteSpace) : key[y].ok}
               ELSE {}
     IN  IF ys # {} THEN key[Max(ys)] ELSE key[x]]

\* (?:^|^)\s* and the rest at p
StartAt(s, export) ==
  [p \in Positions(s) |->
     LET xs == IF LineStart(s, p)
               THEN {x \in p..RunEndIn(s, p, WhiteSpace) : export[x].ok}
               ELSE {}
     IN  IF xs = {} THEN NoMatch ELSE export[Max(xs)]]

\* the whole expression: what it matches at each position of s
\* a table with every entry worked out: the comparison makes the
\* evaluation of f go through all of its domain, once
Table(f) == IF f = f THEN f ELSE f

MatchAt(s) ==
  Table(StartAt(s,
    Table(ExportAt(s,
      Table(KeyAt(s,
        Table(SeparatorAt(s,
          Table(ValueAt(s,
            Table(LineRest(s))))))))))))

\* LINE.exec(lines) with LINE.lastIndex = lastIndex (0-based, as in the
\* source), matches being MatchAt(lines): the leftmost match at or after
\* lastIndex; the new lastIndex is .end - 1, and 0 after a failed exec
LineExec(matches, lastIndex) ==
  LET ps == {p \in DOMAIN matches : p > lastIndex /\ matches[p].ok}
  IN  IF ps = {} THEN NoMatch ELSE matches[Min(ps)]

----------------------------------------------------------------------------
(* String helpers of parseEnvFile and runEnvPush                           *)

\* mutant of NormalizeLineBreaks: /\r\n/ for /\r\n?/, a carriage return on
\* its own stays
RECURSIVE NormalizePairsOnly(_)
NormalizePairsOnly(s) ==
  IF s = <<>> THEN <<>>
  ELSE IF s[1] = "CR" /\ Len(s) >= 2 /\ s[2] = "NL"
  THEN <<"NL">> \o NormalizePairsOnly(SubSeq(s, 3, Len(s)))
  ELSE <<s[1]>> \o NormalizePairsOnly(Tail(s))

\* src.toString().replace(/\r\n?/mg, '\n')
RECURSIVE NormalizeLineBreaks(_)
NormalizeLineBreaks(s) ==
  IF s = <<>> THEN <<>>
  ELSE IF s[1] = "CR"
       THEN IF Len(s) >= 2 /\ s[2] = "NL"
            THEN <<"NL">> \o NormalizeLineBreaks(SubSeq(s, 3, Len(s)))
            ELSE <<"NL">> \o NormalizeLineBreaks(Tail(s))
       ELSE <<s[1]>> \o NormalizeLineBreaks(Tail(s))

\* String.prototype.trim
Trim(s) ==
  LET keep == {i \in 1..Len(s) : s[i] \notin WhiteSpace}
  IN  IF keep = {} THEN <<>> ELSE SubSeq(s, Min(keep), Max(keep))

\* value.replace(/^(['"`])([\s\S]*)\1$/mg, '$2'), from position i on
RECURSIVE StripQuotesFrom(_, _)
StripQuotesFrom(s, i) ==
  IF i > Len(s) THEN <<>>
  ELSE LET js == IF LineStart(s, i) /\ s[i] \in Quotes
                 THEN {j \in (i + 1)..Len(s) : s[j] = s[i] /\ LineEnd(s, j + 1)}
                 ELSE {}
       IN  IF js # {}
           THEN SubSeq(s, i + 1, Max(js) - 1) \o StripQuotesFrom(s, Max(js) + 1)
           ELSE <<s[i]>> \o StripQuotesFrom(s, i + 1)

\* mutant of StripQuotes: the quotes stay
StripQuotesNone(s) == s

StripQuotes(s) == StripQuotesFrom(s, 1)

\* value.replace(/\\n/g, '\n') and value.replace(/\\r/g, '\r'): the two
\* characters backslash, letter become the one character char
RECURSIVE ExpandEscape(_, _, _)
ExpandEscape(s, letter, char) ==
  IF Len(s) < 2 THEN s
  ELSE IF s[1] = "BS" /\ s[2] = letter
       THEN <<char>> \o ExpandEscape(SubSeq(s, 3, Len(s)), letter, char)
       ELSE <<s[1]>> \o ExpandEscape(Tail(s), letter, char)

\* value.replace(/\n/g, by): every line feed becomes the text by
RECURSIVE ReplaceLineFeeds(_, _)
ReplaceLineFeeds(s, by) ==
  IF s = <<>> THEN <<>>
  ELSE (IF s[1] = "NL" THEN by ELSE <<s[1]>>) \o ReplaceLineFeeds(Tail(s), by)

\* value.replace(/\n/g, "\\n"): a line feed becomes backslash, n
EscapeNewlines(s) == ReplaceLineFeeds(s, <<"BS", "n">>)

----------------------------------------------------------------------------
(* obj: Record<string, string>.  An object is the sequence of its          *)
(* [key, value] entries in the order Object.keys lists them: the keys that *)
(* are array indices in ascending numeric order, then the other keys in    *)
(* the order of their creation.                                            *)

DigitSeq == <<"0", "1", "2", "3", "4", "5", "6", "7", "8", "9">>

DigitVal(c) == (CHOOSE i \in 1..10 : DigitSeq[i] = c) - 1

\* a < b for canonical digit strings
NumLess(a, b) ==
  \/ Len(a) < Len(b)
  \/ /\ Len(a) = Len(b)
     /\ \E i \in 1..Len(a) :
          /\ SubSeq(a, 1, i - 1) = SubSeq(b, 1, i - 1)
          /\ DigitVal(a[i]) < DigitVal(b[i])

MaxArrayIndex == <<"4", "2", "9", "4", "9", "6", "7", "2", "9", "4">>

\* the property keys ECMAScript orders numerically: canonical numeric
\* strings of an integer in 0 .. 2^32 - 2
IsArrayIndex(key) ==
  /\ key # <<>>
  /\ \A i \in 1..Len(key) : key[i] \in Digits
  /\ Len(key) = 1 \/ key[1] # "0"
  /\ key = MaxArrayIndex \/ NumLess(key, MaxArrayIndex)

ObjectKeys(obj) == [i \in 1..Len(obj) |-> obj[i].key]

HasKey(obj, key) == \E i \in 1..Len(obj) : obj[i].key = key

\* obj[key]; "undefined" when obj has no such key
Get(obj, key) ==
  IF HasKey(obj, key)
  THEN obj[CHOOSE i \in 1..Len(obj) : obj[i].key = key].value
  ELSE "undefined"

\* mutant of ObjSet: a key that is already there keeps its value
ObjSetKeepFirst(obj, key, value) ==
  IF HasKey(obj, key) THEN obj
  ELSE IF IsArrayIndex(key)
  THEN LET n == Cardinality({i \in 1..Len(obj) :
                    IsArrayIndex(obj[i].key) /\ NumLess(obj[i].key, key)})
       IN  SubSeq(obj, 1, n) \o <<[key |-> key, value |-> value]>>
             \o SubSeq(obj, n + 1, Len(obj))
  ELSE Append(obj, [key |-> key, value |-> value])

\* the key that names the prototype of an object made by {}
ProtoKey == <<"_", "_", "p", "r", "o", "t", "o", "_", "_">>

\* obj[key] = value; with the key __proto__ the assignment goes to the
\* prototype setter, which ignores a string: the object gets no property
ObjSet(obj, key, value) ==
  IF key = ProtoKey THEN obj
  ELSE IF HasKey(obj, key)
  THEN [i \in 1..Len(obj) |->
          IF obj[i].key = key THEN [key |-> key, value |-> value] ELSE obj[i]]
  ELSE IF IsArrayIndex(key)
  THEN LET n == Cardinality({i \in 1..Len(obj) :
                    IsArrayIndex(obj[i].key) /\ NumLess(obj[i].key, key)})
       IN  SubSeq(obj, 1, n) \o <<[key |-> key, value |-> value]>>
             \o SubSeq(obj, n + 1, Len(obj))
  ELSE Append(obj, [key |-> key, value |-> value])

----------------------------------------------------------------------------
(* parseEnvFile                                                            *)

\* mutant of LineValue: \n and \r expanded whatever the value began with
LineValueExpanded(m) ==
  LET value == Trim(IF m.hasValue THEN m.value ELSE <<>>)
  IN  ExpandEscape(ExpandEscape(StripQuotes(value), "n", "NL"), "r", "CR")

\* mutant of LineValue: a doubled backslash of the value is taken as an
\* escaped backslash and becomes one
LineValueUnescaped(m) ==
  LET value      == Trim(IF m.hasValue THEN m.value ELSE <<>>)
      maybeQuote == IF value = <<>> THEN "undefined" ELSE value[1]
      stripped   == ExpandEscape(StripQuotes(value), "BS", "BS")
  IN  IF maybeQuote = "DQ"
      THEN ExpandEscape(ExpandEscape(stripped, "n", "NL"), "r", "CR")
      ELSE stripped

\* the value stored for a match: (match[2] ?? '').trim(), the surrounding
\* quotes removed, \n and \r expanded when the trimmed value began with "
LineValue(m) ==
  LET value      == Trim(IF m.hasValue THEN m.value ELSE <<>>)
      maybeQuote == IF value = <<>> THEN "undefined" ELSE value[1]
      stripped   == StripQuotes(value)
  IN  IF maybeQuote = "DQ"
      THEN ExpandEscape(ExpandEscape(stripped, "n", "NL"), "r", "CR")
      ELSE stripped

\* mutant of LastIndexAfter: a failed exec leaves LINE.lastIndex where it was
LastIndexKept(match, lastIndex) ==
  IF match.ok THEN match.end - 1 ELSE lastIndex

\* LINE.lastIndex after an exec of the global, sticky-less /g expression:
\* the end of the match, and 0 after a failed exec
LastIndexAfter(match, lastIndex) ==
  IF match.ok THEN match.end - 1 ELSE 0

\* the while loop over LINE.exec(lines), LINE.lastIndex being lastIndex:
\* the object it builds and the LINE.lastIndex it leaves
RECURSIVE ParseLoop(_, _, _)
ParseLoop(matches, lastIndex, obj) ==
  LET match == LineExec(matches, lastIndex)
      next  == LastIndexAfter(match, lastIndex)
  IN  IF ~match.ok THEN [obj |-> obj, lastIndex |-> next]
      ELSE ParseLoop(matches, next,
                     IF match.key # <<>>
                     THEN ObjSet(obj, match.key, LineValue(match))
                     ELSE obj)

\* one call of parseEnvFile(src) with LINE.lastIndex = lastIndex
parseEnvFileRun(src, lastIndex) ==
  ParseLoop(MatchAt(NormalizeLineBreaks(src)), lastIndex, <<>>)

\* what the call returns
parseEnvFileAt(src, lastIndex) == parseEnvFileRun(src, lastIndex).obj

\* the call when no call before it has left LINE.lastIndex elsewhere
parseEnvFile(src) == parseEnvFileAt(src, 0)

----------------------------------------------------------------------------
(* Inputs of a run                                                         *)

\* bounds of the model
MaxLines == 2

MaxEntries == 2

MaxRemote == 2

MaxValueLen == 4

MaxParseLines == 3

MaxClients == 3

MaxPayloads == 1

MaxRequests == 3

\* all sequences over S of length 0..n
SeqsUpTo(S, n) == UNION {[1..k -> S] : k \in 0..n}

RECURSIVE JoinLines(_, _)
\* the elements of a sequence of texts, sep between neighbours
JoinLines(texts, sep) ==
  IF texts = <<>> THEN <<>>
  ELSE IF Len(texts) = 1 THEN texts[1]
  ELSE texts[1] \o sep \o JoinLines(Tail(texts), sep)

\* lines of a local .env file: S=y  S="a\nb"  T=z  1=z
LocalLines ==
  { <<"S", "EQ", "y">>, <<"S", "EQ", "DQ", "a", "BS", "n", "b", "DQ">>,
    <<"T", "EQ", "z">>, <<"1", "EQ", "z">> }

\* the local file of the worked example: FOO=bar, BAZ=qux
ExampleLocal ==
  <<"F", "O", "O", "EQ", "b", "a", "r", "NL", "B", "A", "Z", "EQ", "q", "u", "x">>

\* and its remote side: FOO = bar, not secret
ExampleRemote ==
  << [key |-> <<"F", "O", "O">>, value |-> <<"b", "a", "r">>, isSecret |-> FALSE] >>

LocalTexts ==
  {JoinLines(ls, <<"NL">>) : ls \in SeqsUpTo(LocalLines, MaxLines)}
    \cup {ExampleLocal}

\* a remote variable whose value has a carriage return in it
ReturnRemote ==
  << [key |-> <<"T">>, value |-> <<"a", "CR", "b">>, isSecret |-> FALSE] >>

\* variables of a remote environment
RemotePool ==
  { [key |-> <<"S">>, value |-> <<"x">>, isSecret |-> TRUE],
    [key |-> <<"S">>, value |-> <<"y">>, isSecret |-> TRUE],
    [key |-> <<"S">>, value |-> <<"a", "NL", "b">>, isSecret |-> FALSE],
    [key |-> <<"T">>, value |-> <<"z">>, isSecret |-> FALSE],
    [key |-> <<"1">>, value |-> <<"z">>, isSecret |-> FALSE] }

\* the remote keeps one variable per key
RemoteLists ==
  {variables \in SeqsUpTo(RemotePool, MaxRemote) :
     \A i, j \in 1..Len(variables) : variables[i].key = variables[j].key => i = j}
    \cup {ExampleRemote, ReturnRemote}

\* environments of the storefront; ids are unique
EnvironmentPool ==
  { [id |-> "gid1", name |-> "staging", branch |-> "b1", type |-> "PREVIEW"],
    [id |-> "gid2", name |-> "staging", branch |-> "b2", type |-> "CUSTOM"],
    [id |-> "gid3", name |-> "production", branch |-> "null", type |-> "PRODUCTION"] }

\* what the fetch of the environments lists: all of them in any order, or
\* none for a storefront without environments
EnvironmentLists ==
  {<<>>} \cup {es \in [1..Cardinality(EnvironmentPool) -> EnvironmentPool] :
                \A i, j \in 1..Len(es) : es[i] = es[j] => i = j}

\* --environment: not given, the name of two environments, of one, of none
EnvironmentFlags == {"undefined", "staging", "production", "missing"}

\* texts given to parseEnvFile on its own: up to MaxParseLines lines
\*   A=1  A=2  B=1  A=  A  #c  (blank)  A=`\n`
ParseLines ==
  { <<"A", "EQ", "1">>, <<"A", "EQ", "2">>, <<"B", "EQ", "1">>, <<"A", "EQ">>,
    <<"A">>, <<"HASH", "c">>, <<>>, <<"A", "EQ", "BT", "BS", "n", "BT">> }

\* and A=<value>, the value any text of up to MaxValueLen of these characters
ValueChars == {"DQ", "SQ", "BS", "n", "r", "HASH", "SP"}

ParseTexts ==
  {JoinLines(ls, <<"NL">>) : ls \in SeqsUpTo(ParseLines, MaxParseLines)}
    \cup {<<"A", "EQ">> \o v : v \in SeqsUpTo(ValueChars, MaxValueLen)}

\* texts A=<value> for the quoting rules: the value any text of up to
\* MaxValueLen of the three quotes, #, space and a letter
QuoteChars == {"SQ", "DQ", "BT", "HASH", "SP", "a"}

QuoteTexts == {<<"A", "EQ">> \o v : v \in SeqsUpTo(QuoteChars, MaxValueLen)}

\* lines that assign:  A=1  B=2  A=
AssigningLines == {<<"A", "EQ", "1">>, <<"B", "EQ", "2">>, <<"A", "EQ">>}

\* lines that LINE does not match:  (blank)  #c  A  'x'  =1
OtherLines ==
  {<<>>, <<"HASH", "c">>, <<"A">>, <<"SQ", "x", "SQ">>, <<"EQ", "1">>}

\* keys and values of mappings that are written out as key=value lines:
\* no =, no #, no quote and no line break in them
\*   keys    A  1  b.c  "A B"  __proto__
\*   values  x  "x y"  \n (backslash, n)  " x"  " "
RoundTripKeys ==
  {<<"A">>, <<"1">>, <<"b", "DOT", "c">>, <<"A", "SP", "B">>, ProtoKey}

RoundTripValues ==
  {<<"x">>, <<"x", "SP", "y">>, <<"BS", "n">>, <<"SP", "x">>, <<"SP">>}

\* the mappings of up to MaxEntries entries, as lists of {key, value}
Mappings ==
  {m \in SeqsUpTo([key : RoundTripKeys, value : RoundTripValues], MaxEntries) :
     \A i, j \in 1..Len(m) : m[i].key = m[j].key => i = j}

\* lines of texts whose line breaks fall between assignments and inside a
\* quoted value:  A=1  B=2  A='x  y'  #c  (blank)
BreakLines ==
  { <<"A", "EQ", "1">>, <<"B", "EQ", "2">>, <<"A", "EQ", "SQ", "x">>,
    <<"y", "SQ">>, <<"HASH", "c">>, <<>> }

\* texts of up to MaxParseLines of them, the line breaks being line feeds
BreakTexts ==
  {JoinLines(ls, <<"NL">>) : ls \in SeqsUpTo(BreakLines, MaxParseLines)}

\* texts of up to MaxParseLines of these lines
MixedTexts ==
  {JoinLines(ls, <<"NL">>) :
     ls \in SeqsUpTo(AssigningLines \cup OtherLines, MaxParseLines)}

----------------------------------------------------------------------------
(* runEnvPush: the computations between the awaits                         *)

\* fileExists of @shopify/cli-kit/node/fs is asynchronous: a call returns
\* the promise of the answer
fileExists(file) == [promise |-> TRUE, value |-> file.exists]

\* the truth value of an operand of ! or if: a promise is an object, and
\* every object is truthy
ToBoolean(v) == IF v.promise THEN TRUE ELSE v.value

Includes(seq, x) == \E i \in 1..Len(seq) : seq[i] = x

\* lines 103-107: PREVIEW, then CUSTOM, then PRODUCTION
OrderEnvironments(environmentsData) ==
  SelectSeq(environmentsData, LAMBDA e : e.type = "PREVIEW")
    \o SelectSeq(environmentsData, LAMBDA e : e.type = "CUSTOM")
    \o SelectSeq(environmentsData, LAMBDA e : e.type = "PRODUCTION")

\* {id, name, branch, type} of {}
NoEnvironment ==
  [id |-> "undefined", name |-> "undefined", branch |-> "undefined", type |-> "undefined"]

\* mutant of FindEnvironment: the first environment, whatever was selected
FindEnvironmentFirst(envs, selection) == envs[1]

\* mutant of MatchedEnvironments: the name is not looked at
MatchedEnvironmentsAll(envs, name) == envs

\* line 119: environments.filter(({name}) => name === environment)
MatchedEnvironments(envs, name) == SelectSeq(envs, LAMBDA e : e.name = name)

\* const {id, name, branch, type} = envs.find(({id}) => id === selection) ?? {}
FindEnvironment(envs, selection) ==
  IF \E i \in 1..Len(envs) : envs[i].id = selection
  THEN envs[Min({i \in 1..Len(envs) : envs[i].id = selection})]
  ELSE NoEnvironment

\* the choices of a select prompt: the value of each is the environment id
Choices(envs) == [i \in 1..Len(envs) |-> envs[i].id]

\* what a select prompt can return: the value of a choice, or null when
\* the prompt is left without one
Selections(envs) == {envs[i].id : i \in 1..Len(envs)} \cup {"null"}

\* lines 170-173
RemoteSecrets(variables) ==
  LET secrets == SelectSeq(variables, LAMBDA v : v.isSecret)
  IN  [i \in 1..Len(secrets) |-> secrets[i].key]

\* mutant of RemoteVars: the secret variables are not left out
RECURSIVE RemoteVarsWithSecrets(_)
RemoteVarsWithSecrets(variables) ==
  IF variables = <<>> THEN <<>>
  ELSE variables[1].key \o <<"EQ">> \o EscapeNewlines(variables[1].value) \o <<"NL">>
       \o RemoteVarsWithSecrets(Tail(variables))

\* lines 176-179: `${acc}${key}=${value.replace(/\n/g, "\\n")}\n`
RECURSIVE RemoteVars(_)
RemoteVars(variables) ==
  IF variables = <<>> THEN <<>>
  ELSE (IF variables[1].isSecret THEN <<>>
        ELSE variables[1].key \o <<"EQ">> \o EscapeNewlines(variables[1].value) \o <<"NL">>)
       \o RemoteVars(Tail(variables))

\* lines 181-183: the replace of line 183 puts a line feed for a line feed
CompareableRemoteVars(parsedRemoteVars) ==
  JoinLines([i \in 1..Len(parsedRemoteVars) |->
               parsedRemoteVars[i].key \o <<"EQ">>
                 \o ReplaceLineFeeds(parsedRemoteVars[i].value, <<"NL">>)],
            <<"NL">>)

\* mutant of LocalVariables: the remote secret keys are not left out
LocalVariablesWithSecrets(parsed, secrets) ==
  [i \in 1..Len(parsed) |->
     [key |-> parsed[i].key, value |-> EscapeNewlines(parsed[i].value)]]

\* lines 187-191
LocalVariables(parsed, secrets) ==
  LET kept == SelectSeq(parsed, LAMBDA e : ~Includes(secrets, e.key))
  IN  [i \in 1..Len(kept) |->
         [key |-> kept[i].key, value |-> EscapeNewlines(kept[i].value)]]

\* lines 192-193
CompareableLocalVars(localVars) ==
  JoinLines([i \in 1..Len(localVars) |->
               localVars[i].key \o <<"EQ">> \o localVars[i].value],
            <<"NL">>)

\* mutant of MatchingSecrets: every remote secret key
MatchingSecretsAll(secrets, parsed) == secrets

\* line 196
MatchingSecrets(secrets, parsed) ==
  SelectSeq(secrets, LAMBDA key : Includes(ObjectKeys(parsed), key))

----------------------------------------------------------------------------
(* State                                                                   *)

VARIABLES
  dotEnvFile,            \* the file at dotEnvPath: whether it exists, its text
  environment,           \* the --environment flag, "undefined" when not given
  pc,                    \* where the run is
  exit,                  \* "running", or how the run ended:
                         \* "exit0", "exit1", "returned", "threw"
  existingEnv,           \* line 63
  environments,          \* line 103
  validatedEnvironment,  \* line 52
  environmentVariables,  \* line 163
  remoteSecrets,         \* line 170
  parsedRemoteVars,      \* line 180
  compareableRemoteVars, \* line 181
  parsedLocalVars,       \* line 186
  localVariables,        \* line 187
  compareableLocalVars,  \* line 192
  matchingSecrets,       \* line 196
  lastIndex,             \* LINE.lastIndex, the state of the global regex
  ui,                    \* what was rendered and prompted, in order
  calls,                 \* the calls to the collaborators, in order
  src,                   \* the argument of a parseEnvFile call on its own
  obj,                   \* and the object it returned
  fetchedEnv,            \* part_001 line 193, the revision that pushes every
                         \* parsed variable
  nthRun,                \* the first or the second run on the same .env file
  stored,                \* what the remote side stores after a push: the
                         \* environment pushed to and its variables
  mfReady,               \* mf.ready: "pending", "resolved" or "rejected"
  accepted,              \* the sockets the HMR WebSocket server has accepted
  closed,                \* those of them that have closed
  clients,               \* the keys of hmrChannel.clients
  delivered,             \* the calls of hmrSend, one record per send
  responses,             \* the state of each request to /__vite_fetch_module
  request,               \* the request given to the action of the register
                         \* route
  step,                  \* where that action is
  results,               \* what its awaits resolved to, in order
  session,               \* whether session.set and session.commit were done
  response               \* what the action returned

vars ==
  <<dotEnvFile, environment, pc, exit, existingEnv, environments,
    validatedEnvironment, environmentVariables, remoteSecrets,
    parsedRemoteVars, compareableRemoteVars, parsedLocalVars, localVariables,
    compareableLocalVars, matchingSecrets, lastIndex, ui, calls, src, obj,
    fetchedEnv, nthRun, stored, mfReady, accepted, closed, clients, delivered,
    responses, request, step, results, session, response>>

\* nothing was pushed yet
NothingStored == [environmentId |-> "undefined", variables |-> <<>>]

\* the state of the other programs of the repository and of a second run
others ==
  <<fetchedEnv, nthRun, stored, mfReady, accepted, closed, clients, delivered,
    responses, request, step, results, session, response>>

\* the requests that a dev server gets for /__vite_fetch_module
Requests == 1..MaxRequests

\* the state of the dev server
dev == <<mfReady, accepted, closed, clients, delivered, responses>>

\* the state of the action of the register route
register == <<request, step, results, session, response>>

\* the others but fetchedEnv
rest == <<nthRun, stored, dev, register>>

\* and its value while they do not run
OthersIdle ==
  /\ fetchedEnv = <<>>
  /\ nthRun = 1
  /\ stored = NothingStored
  /\ mfReady = "pending"
  /\ accepted = {}
  /\ closed = {}
  /\ clients = {}
  /\ delivered = <<>>
  /\ responses = [r \in Requests |-> "none"]
  /\ request = "none"
  /\ step = "idle"
  /\ results = <<>>
  /\ session = [set |-> FALSE, committed |-> FALSE]
  /\ response = "none"

world == <<dotEnvFile, environment, src, obj, others>>

reconciled ==
  <<environmentVariables, remoteSecrets, parsedRemoteVars, compareableRemoteVars,
    parsedLocalVars, localVariables, compareableLocalVars, matchingSecrets,
    lastIndex>>

Rendered(kind, detail) == [kind |-> kind, detail |-> detail]

Call(fn, arg) == [fn |-> fn, arg |-> arg]

\* process.exit(code), return, or an exception leaving runEnvPush
End(how) == pc' = "done" /\ exit' = how

NoFile == [exists |-> FALSE, text |-> <<>>]

\* what a fetch resolves to: nothing, or the list
Fetched(lists) ==
  {[ok |-> FALSE, list |-> <<>>]} \cup {[ok |-> TRUE, list |-> l] : l \in lists}

Init ==
  /\ dotEnvFile \in {NoFile} \cup {[exists |-> TRUE, text |-> t] : t \in LocalTexts}
  /\ environment \in EnvironmentFlags
  /\ pc = "checkFile"
  /\ exit = "running"
  /\ existingEnv = <<>>
  /\ environments = <<>>
  /\ validatedEnvironment = NoEnvironment
  /\ environmentVariables = <<>>
  /\ remoteSecrets = <<>>
  /\ parsedRemoteVars = <<>>
  /\ compareableRemoteVars = <<>>
  /\ parsedLocalVars = <<>>
  /\ localVariables = <<>>
  /\ compareableLocalVars = <<>>
  /\ matchingSecrets = <<>>
  /\ lastIndex = 0
  /\ ui = <<>>
  /\ calls = <<>>
  /\ src = <<>>
  /\ obj = <<>>
  /\ OthersIdle

----------------------------------------------------------------------------
(* runEnvPush, one action per stretch of code between two awaits           *)

\* lines 55-62: the existence check of the .env file
CheckFile ==
  /\ pc = "checkFile"
  /\ IF ~ToBoolean(fileExists(dotEnvFile))
     THEN /\ ui' = Append(ui, Rendered("warning", "Local .env file not found"))
          /\ End("exit1")
     ELSE /\ pc' = "readFile"
          /\ UNCHANGED <<ui, exit>>
  /\ UNCHANGED <<world, existingEnv, environments, validatedEnvironment,
                 reconciled, calls>>

\* line 63: readFile rejects when there is no file
ReadFile ==
  /\ pc = "readFile"
  /\ calls' = Append(calls, Call("readFile", "dotEnvPath"))
  /\ IF ~dotEnvFile.exists
     THEN /\ End("threw")
          /\ UNCHANGED existingEnv
     ELSE /\ existingEnv' = dotEnvFile.text
          /\ pc' = "login"
          /\ UNCHANGED exit
  /\ UNCHANGED <<world, environments, validatedEnvironment, reconciled, ui>>

\* lines 66-87: login, and the offer to link a storefront when none is
\* linked (linked: config.storefront.id is set; runLink: the answer to the
\* offer; linkedNow: linkStorefront returned a storefront with an id).  The
\* run goes on with a storefront id or returns; the offer is not recorded.
Login ==
  /\ pc = "login"
  /\ calls' = Append(calls, Call("login", "path"))
  /\ \E linked \in BOOLEAN, runLink \in BOOLEAN, linkedNow \in BOOLEAN :
       IF linked \/ (runLink /\ linkedNow)
       THEN pc' = "fetchEnvironments" /\ UNCHANGED exit
       ELSE End("returned")
  /\ UNCHANGED <<world, existingEnv, environments, validatedEnvironment,
                 reconciled, ui>>

\* mutant of FetchEnvironments: no check of what the fetch returned
FetchEnvironmentsUnchecked ==
  /\ pc = "fetchEnvironments"
  /\ calls' = Append(calls, Call("getStorefrontEnvironments", "storefront"))
  /\ \E data \in Fetched(EnvironmentLists) :
       environments' = OrderEnvironments(data.list)
  /\ pc' = "select"
  /\ UNCHANGED <<world, existingEnv, validatedEnvironment, reconciled, ui, exit>>

\* lines 90-114: one fetch of the environments
FetchEnvironments ==
  /\ pc = "fetchEnvironments"
  /\ calls' = Append(calls, Call("getStorefrontEnvironments", "storefront"))
  /\ \E data \in Fetched(EnvironmentLists) :
       IF ~data.ok
       THEN /\ ui' = Append(ui, Rendered("warning", "Failed to fetch environments"))
            /\ End("exit1")
            /\ UNCHANGED environments
       ELSE /\ environments' = OrderEnvironments(data.list)
            /\ IF Len(environments') = 0
               THEN /\ ui' = Append(ui, Rendered("warning", "No environments found"))
                    /\ End("exit1")
               ELSE /\ pc' = "select"
                    /\ UNCHANGED <<ui, exit>>
  /\ UNCHANGED <<world, existingEnv, validatedEnvironment, reconciled>>

\* lines 117-160: the environment to push to
SelectEnvironment ==
  /\ pc = "select"
  /\ IF environment # "undefined"
     THEN LET matchedEnvironments == MatchedEnvironments(environments, environment)
          IN  IF Len(matchedEnvironments) = 0
              THEN /\ ui' = Append(ui, Rendered("warning", "Environment not found"))
                   /\ End("exit1")
                   /\ UNCHANGED validatedEnvironment
              ELSE IF Len(matchedEnvironments) = 1
              THEN /\ validatedEnvironment' = matchedEnvironments[1]
                   /\ pc' = "fetchVariables"
                   /\ UNCHANGED <<ui, exit>>
              ELSE \E selection \in Selections(matchedEnvironments) :
                     /\ ui' = Append(ui, Rendered("select",
                                           [choices |-> Choices(matchedEnvironments),
                                            answer  |-> selection]))
                     /\ validatedEnvironment' =
                          FindEnvironment(matchedEnvironments, selection)
                     /\ pc' = "fetchVariables"
                     /\ UNCHANGED exit
     ELSE \E pushToBranchSelection \in Selections(environments) :
            /\ ui' = Append(ui, Rendered("select",
                                  [choices |-> Choices(environments),
                                   answer  |-> pushToBranchSelection]))
            /\ validatedEnvironment' =
                 FindEnvironment(environments, pushToBranchSelection)
            /\ pc' = "fetchVariables"
            /\ UNCHANGED exit
  /\ UNCHANGED <<world, existingEnv, environments, reconciled, calls>>

\* validatedEnvironment.branch ?? undefined
BranchArgument(env) == IF env.branch = "null" THEN "undefined" ELSE env.branch

\* lines 163-196: the fetch of the remote variables and the normalisation of
\* both sides; parseEnvFile runs on the remote text, then on the local text,
\* each call starting from the LINE.lastIndex the call before it left
\* (localFromStart: the second call when the first has left lastIndex = 0);
\* answers: what the fetch can resolve to
FetchVariablesOf(answers) ==
  LET localFromStart == parseEnvFileRun(existingEnv, 0)
  IN  /\ pc = "fetchVariables"
      /\ calls' = Append(calls, Call("getStorefrontEnvVariables",
                                     BranchArgument(validatedEnvironment)))
      /\ \E data \in answers :
           /\ environmentVariables' = (IF data.ok THEN data.list ELSE <<>>)
           /\ remoteSecrets' = RemoteSecrets(environmentVariables')
           /\ LET remoteRun == parseEnvFileRun(RemoteVars(environmentVariables'),
                                               lastIndex)
                  localRun  == IF remoteRun.lastIndex = 0 THEN localFromStart
                               ELSE parseEnvFileRun(existingEnv, remoteRun.lastIndex)
              IN  /\ parsedRemoteVars' = remoteRun.obj
                  /\ parsedLocalVars' = localRun.obj
                  /\ lastIndex' = localRun.lastIndex
           /\ compareableRemoteVars' = CompareableRemoteVars(parsedRemoteVars')
           /\ localVariables' = LocalVariables(parsedLocalVars', remoteSecrets')
           /\ compareableLocalVars' = CompareableLocalVars(localVariables')
           /\ matchingSecrets' = MatchingSecrets(remoteSecrets', parsedLocalVars')
      /\ pc' = "confirm"
      /\ UNCHANGED <<world, existingEnv, environments, validatedEnvironment, ui, exit>>

\* the fetch of a run against any remote environment
FetchVariables == FetchVariablesOf(Fetched(RemoteLists))

\* mutant of ConfirmChanges: the answer of the prompt is not looked at
ConfirmChangesUnasked ==
  /\ pc = "confirm"
  /\ IF validatedEnvironment.name = "undefined"
     THEN End("exit1") /\ UNCHANGED ui
     ELSE IF compareableLocalVars = compareableRemoteVars
     THEN /\ ui' = Append(ui, Rendered("info", matchingSecrets))
          /\ End("exit0")
     ELSE \E confirmPush \in BOOLEAN :
            /\ ui' = Append(ui, Rendered("confirmPush",
                                  [old     |-> compareableRemoteVars,
                                   new     |-> compareableLocalVars,
                                   secrets |-> matchingSecrets,
                                   answer  |-> confirmPush]))
            /\ pc' = "push" /\ UNCHANGED exit
  /\ UNCHANGED <<world, existingEnv, environments, validatedEnvironment,
                 reconciled, calls>>

\* lines 199-221: the identical / changed decision and the confirmation
ConfirmChanges ==
  /\ pc = "confirm"
  /\ IF validatedEnvironment.name = "undefined"
     THEN End("exit1") /\ UNCHANGED ui
     ELSE IF compareableLocalVars = compareableRemoteVars
     THEN /\ ui' = Append(ui, Rendered("info", matchingSecrets))
          /\ End("exit0")
     ELSE \E confirmPush \in BOOLEAN :
            /\ ui' = Append(ui, Rendered("confirmPush",
                                  [old     |-> compareableRemoteVars,
                                   new     |-> compareableLocalVars,
                                   secrets |-> matchingSecrets,
                                   answer  |-> confirmPush]))
            /\ IF ~confirmPush
               THEN End("exit0")
               ELSE pc' = "push" /\ UNCHANGED exit
  /\ UNCHANGED <<world, existingEnv, environments, validatedEnvironment,
                 reconciled, calls>>

\* lines 223-242: the push and its report
Push ==
  /\ pc = "push"
  /\ IF validatedEnvironment.id = "undefined"
     THEN End("exit1") /\ UNCHANGED <<ui, calls>>
     ELSE \E userErrors \in {<<>>, <<"error">>} :
            /\ calls' = Append(calls, Call("pushStorefrontEnvVariables",
                                 [environmentId |-> validatedEnvironment.id,
                                  variables     |-> localVariables]))
            /\ ui' = ui
                 \o (IF Len(userErrors) # 0
                     THEN <<Rendered("warning",
                              "Failed to upload and save environment variables")>>
                     ELSE <<>>)
                 \o <<Rendered("success", BranchArgument(validatedEnvironment))>>
            /\ End("exit0")
  /\ UNCHANGED <<world, existingEnv, environments, validatedEnvironment, reconciled>>

Next ==
  \/ CheckFile
  \/ ReadFile
  \/ Login
  \/ FetchEnvironments
  \/ SelectEnvironment
  \/ FetchVariables
  \/ ConfirmChanges
  \/ Push

Spec == Init /\ [][Next]_vars

----------------------------------------------------------------------------
(* parseEnvFile called on its own                                          *)

ParseInit ==
  /\ src \in ParseTexts
  /\ obj = <<>>
  /\ pc = "parse"
  /\ exit = "running"
  /\ dotEnvFile = NoFile
  /\ environment = "undefined"
  /\ existingEnv = <<>>
  /\ environments = <<>>
  /\ validatedEnvironment = NoEnvironment
  /\ environmentVariables = <<>>
  /\ remoteSecrets = <<>>
  /\ parsedRemoteVars = <<>>
  /\ compareableRemoteVars = <<>>
  /\ parsedLocalVars = <<>>
  /\ localVariables = <<>>
  /\ compareableLocalVars = <<>>
  /\ matchingSecrets = <<>>
  /\ lastIndex = 0
  /\ ui = <<>>
  /\ calls = <<>>
  /\ OthersIdle

\* lines 248-279: one call of parseEnvFile
Parse ==
  /\ pc = "parse"
  /\ LET run == parseEnvFileRun(src, lastIndex)
     IN  obj' = run.obj /\ lastIndex' = run.lastIndex
  /\ pc' = "parsed"
  /\ UNCHANGED <<dotEnvFile, environment, src, exit, existingEnv, environments,
                 validatedEnvironment, environmentVariables, remoteSecrets,
                 parsedRemoteVars, compareableRemoteVars, parsedLocalVars,
                 localVariables, compareableLocalVars, matchingSecrets, ui, calls,
                 others>>

ParseNext == Parse

ParseSpec == ParseInit /\ [][ParseNext]_vars

\* the state before a call of parseEnvFile on its own, but for its argument
BeforeParse ==
  /\ obj = <<>>
  /\ pc = "parse"
  /\ exit = "running"
  /\ dotEnvFile = NoFile
  /\ environment = "undefined"
  /\ existingEnv = <<>>
  /\ environments = <<>>
  /\ validatedEnvironment = NoEnvironment
  /\ environmentVariables = <<>>
  /\ remoteSecrets = <<>>
  /\ parsedRemoteVars = <<>>
  /\ compareableRemoteVars = <<>>
  /\ parsedLocalVars = <<>>
  /\ localVariables = <<>>
  /\ compareableLocalVars = <<>>
  /\ matchingSecrets = <<>>
  /\ lastIndex = 0
  /\ ui = <<>>
  /\ calls = <<>>
  /\ OthersIdle

\* parseEnvFile on a text A=<value>
QuoteInit == src \in QuoteTexts /\ BeforeParse

QuoteNext == Parse

QuoteSpec == QuoteInit /\ [][QuoteNext]_vars

\* one key=value line per entry, as lines 192-193 write a list out
RoundTripTexts == {CompareableLocalVars(m) : m \in Mappings}

\* parseEnvFile on a mapping written out
RoundTripInit == src \in RoundTripTexts /\ BeforeParse

RoundTripNext == Parse

RoundTripSpec == RoundTripInit /\ [][RoundTripNext]_vars

\* parseEnvFile on a text of several lines
BreakInit == src \in BreakTexts /\ BeforeParse

BreakNext == Parse

BreakSpec == BreakInit /\ [][BreakNext]_vars

\* parseEnvFile on a text with lines that assign and lines that do not
MixedInit == src \in MixedTexts /\ BeforeParse

MixedNext == Parse

MixedSpec == MixedInit /\ [][MixedNext]_vars

----------------------------------------------------------------------------
(* runEnvPush of part_001, the revision that pushes every parsed variable. *)
(* Its lines 64-180, up to the selection of the environment, are those of  *)
(* push__unstable.ts lines 48-160: CheckFile, ReadFile, Login,             *)
(* FetchEnvironments and SelectEnvironment stand for them here too.        *)

\* the text put in the place of the value of a secret
EXISTING_SECRET_VALUE ==
  <<"E", "X", "I", "S", "T", "I", "N", "G", "_", "S", "E", "C", "R", "E", "T",
    "_", "V", "A", "L", "U", "E">>

\* part_001 lines 191-194: one line key=value per fetched variable, each
\* followed by a line feed, the value of a secret replaced
RECURSIVE FetchedEnv(_)
FetchedEnv(variables) ==
  IF variables = <<>> THEN <<>>
  ELSE variables[1].key \o <<"EQ">>
         \o (IF variables[1].isSecret THEN EXISTING_SECRET_VALUE
             ELSE variables[1].value)
         \o <<"NL">> \o FetchedEnv(Tail(variables))

\* local files of that revision: the texts that a fetch can be equal to,
\* and the file of the worked example
AllTexts == {FetchedEnv(variables) : variables \in RemoteLists} \cup {ExampleLocal}

AllInit ==
  /\ dotEnvFile \in {NoFile} \cup {[exists |-> TRUE, text |-> t] : t \in AllTexts}
  /\ environment \in EnvironmentFlags
  /\ pc = "checkFile"
  /\ exit = "running"
  /\ existingEnv = <<>>
  /\ environments = <<>>
  /\ validatedEnvironment = NoEnvironment
  /\ environmentVariables = <<>>
  /\ remoteSecrets = <<>>
  /\ parsedRemoteVars = <<>>
  /\ compareableRemoteVars = <<>>
  /\ parsedLocalVars = <<>>
  /\ localVariables = <<>>
  /\ compareableLocalVars = <<>>
  /\ matchingSecrets = <<>>
  /\ lastIndex = 0
  /\ ui = <<>>
  /\ calls = <<>>
  /\ src = <<>>
  /\ obj = <<>>
  /\ OthersIdle

\* what these steps leave alone
untouched ==
  <<dotEnvFile, environment, src, obj, existingEnv, environments,
    validatedEnvironment, remoteSecrets, parsedRemoteVars,
    compareableRemoteVars, localVariables, compareableLocalVars,
    matchingSecrets>>

\* part_001 lines 183-194: the check of the name, the fetch of the remote
\* variables and the text made of them
FetchAll ==
  /\ pc = "fetchVariables"
  /\ IF validatedEnvironment.name = "undefined"
     THEN /\ End("exit1")
          /\ UNCHANGED <<calls, environmentVariables, fetchedEnv>>
     ELSE /\ calls' = Append(calls, Call("getStorefrontEnvVariables",
                                         BranchArgument(validatedEnvironment)))
          /\ \E data \in Fetched(RemoteLists) :
               /\ environmentVariables' = (IF data.ok THEN data.list ELSE <<>>)
               /\ fetchedEnv' = FetchedEnv(environmentVariables')
          /\ pc' = "compareAll"
          /\ UNCHANGED exit
  /\ UNCHANGED <<untouched, parsedLocalVars, lastIndex, ui, rest>>

\* part_001 lines 196-213: the report of no change, or the confirmation of
\* the changes; nothing ends the run after the report
CompareAll ==
  /\ pc = "compareAll"
  /\ IF existingEnv = fetchedEnv
     THEN /\ ui' = Append(ui, Rendered("info",
                               "No changes to your environment variables"))
          /\ pc' = "pushAll"
          /\ UNCHANGED exit
     ELSE \E confirmPush \in BOOLEAN :
            /\ ui' = Append(ui, Rendered("confirmPush",
                                  [old    |-> fetchedEnv,
                                   new    |-> existingEnv,
                                   answer |-> confirmPush]))
            /\ IF ~confirmPush
               THEN End("exit0")
               ELSE pc' = "pushAll" /\ UNCHANGED exit
  /\ UNCHANGED <<untouched, environmentVariables, fetchedEnv, parsedLocalVars,
                 lastIndex, calls, rest>>

\* part_001 lines 215-239: every parsed variable is pushed (parsedVars is
\* kept in parsedLocalVars)
PushAll ==
  /\ pc = "pushAll"
  /\ LET run == parseEnvFileRun(existingEnv, lastIndex)
     IN  /\ parsedLocalVars' = run.obj
         /\ lastIndex' = run.lastIndex
  /\ IF validatedEnvironment.id = "undefined"
     THEN /\ ui' = Append(ui, Rendered("outputInfo", "Pushing"))
          /\ End("exit1")
          /\ UNCHANGED calls
     ELSE \E userErrors \in {<<>>, <<"error">>} :
            /\ calls' = Append(calls, Call("pushStorefrontEnvVariables",
                                 [environmentId |-> validatedEnvironment.id,
                                  variables     |-> parsedLocalVars']))
            /\ ui' = ui \o <<Rendered("outputInfo", "Pushing")>>
                 \o (IF Len(userErrors) # 0
                     THEN <<Rendered("warning",
                              "Failed to upload and save environment variables")>>
                     ELSE <<>>)
                 \o <<Rendered("outputInfo", "Push successful")>>
            /\ End("exit0")
  /\ UNCHANGED <<untouched, environmentVariables, fetchedEnv, rest>>

AllNext ==
  \/ CheckFile
  \/ ReadFile
  \/ Login
  \/ FetchEnvironments
  \/ SelectEnvironment
  \/ FetchAll
  \/ CompareAll
  \/ PushAll

AllSpec == AllInit /\ [][AllNext]_vars

----------------------------------------------------------------------------
(* Two runs of runEnvPush on the same .env file: the remote side stores    *)
(* what the first run pushed, and the second run fetches it.               *)

\* local files of the two runs: those of LocalTexts and values that are
\* quoted in the file:  A=' '  A='#'  A="x"
ConvergeTexts ==
  LocalTexts
    \cup { <<"A", "EQ", "SQ", "SP", "SQ">>, <<"A", "EQ", "SQ", "HASH", "SQ">>,
           <<"A", "EQ", "DQ", "x", "DQ">> }

\* the remote environments without a secret
PlainLists ==
  {variables \in RemoteLists :
     \A i \in 1..Len(variables) : ~variables[i].isSecret}

ConvergeInit ==
  /\ dotEnvFile \in {[exists |-> TRUE, text |-> t] : t \in ConvergeTexts}
  /\ environment \in EnvironmentFlags
  /\ pc = "checkFile"
  /\ exit = "running"
  /\ existingEnv = <<>>
  /\ environments = <<>>
  /\ validatedEnvironment = NoEnvironment
  /\ environmentVariables = <<>>
  /\ remoteSecrets = <<>>
  /\ parsedRemoteVars = <<>>
  /\ compareableRemoteVars = <<>>
  /\ parsedLocalVars = <<>>
  /\ localVariables = <<>>
  /\ compareableLocalVars = <<>>
  /\ matchingSecrets = <<>>
  /\ lastIndex = 0
  /\ ui = <<>>
  /\ calls = <<>>
  /\ src = <<>>
  /\ obj = <<>>
  /\ OthersIdle

\* the variables the remote side holds for an environment after the push
\* of lines 224-229: those of the payload, in its order, none a secret
StoredVariables ==
  [i \in 1..Len(stored.variables) |->
     [key      |-> stored.variables[i].key,
      value    |-> stored.variables[i].value,
      isSecret |-> FALSE]]

\* lines 163-196 in either run: the second run fetches what the first has
\* pushed when it is given the same environment
FetchStored ==
  FetchVariablesOf(IF nthRun = 2 /\ validatedEnvironment.id = stored.environmentId
                   THEN {[ok |-> TRUE, list |-> StoredVariables]}
                   ELSE Fetched(PlainLists))

\* the run has pushed and ended; the remote side stores the payload and
\* runEnvPush is started again with the same file and flag
RunAgain ==
  /\ nthRun = 1
  /\ pc = "done"
  /\ SelectSeq(calls, LAMBDA c : c.fn = "pushStorefrontEnvVariables") # <<>>
  /\ stored' = SelectSeq(calls,
                         LAMBDA c : c.fn = "pushStorefrontEnvVariables")[1].arg
  /\ nthRun' = 2
  /\ pc' = "checkFile"
  /\ exit' = "running"
  /\ existingEnv' = <<>>
  /\ environments' = <<>>
  /\ validatedEnvironment' = NoEnvironment
  /\ environmentVariables' = <<>>
  /\ remoteSecrets' = <<>>
  /\ parsedRemoteVars' = <<>>
  /\ compareableRemoteVars' = <<>>
  /\ parsedLocalVars' = <<>>
  /\ localVariables' = <<>>
  /\ compareableLocalVars' = <<>>
  /\ matchingSecrets' = <<>>
  /\ lastIndex' = 0
  /\ ui' = <<>>
  /\ calls' = <<>>
  /\ UNCHANGED <<dotEnvFile, environment, src, obj, fetchedEnv, dev, register>>

ConvergeNext ==
  \/ CheckFile
  \/ ReadFile
  \/ Login
  \/ FetchEnvironments
  \/ SelectEnvironment
  \/ FetchStored
  \/ ConfirmChanges
  \/ Push
  \/ RunAgain

ConvergeSpec == ConvergeInit /\ [][ConvergeNext]_vars

----------------------------------------------------------------------------
(* runEnvPush of push.ts, the revision that names the selected environment *)
(* by the text `${name}-${branch}`.  A value that may be null or undefined *)
(* is the record of whether a text is given and of the text that a         *)
(* template literal puts for it.                                           *)

Text(t) == [given |-> TRUE, text |-> t]

Null == [given |-> FALSE, text |-> <<"n", "u", "l", "l">>]

Undefined ==
  [given |-> FALSE, text |-> <<"u", "n", "d", "e", "f", "i", "n", "e", "d">>]

\* s.split(c)
RECURSIVE Split(_, _)
Split(s, c) ==
  LET n == Min({j \in 1..Len(s) : s[j] = c} \cup {Len(s) + 1})
  IN  IF n > Len(s) THEN <<s>>
      ELSE <<SubSeq(s, 1, n - 1)>> \o Split(SubSeq(s, n + 1, Len(s)), c)

\* the environments of a storefront: a (m), a (n), a-b (m), c (x-y) and d
\* without a branch
EnvironmentsByName ==
  << [name |-> <<"a">>, branch |-> Text(<<"m">>), type |-> "PREVIEW"],
     [name |-> <<"a">>, branch |-> Text(<<"n">>), type |-> "PREVIEW"],
     [name |-> <<"a", "DASH", "b">>, branch |-> Text(<<"m">>), type |-> "CUSTOM"],
     [name |-> <<"c">>, branch |-> Text(<<"x", "DASH", "y">>), type |-> "CUSTOM"],
     [name |-> <<"d">>, branch |-> Null, type |-> "PRODUCTION"] >>

\* --environment: not given, or the name of two environments, of one (with
\* and without a dash or a branch), of none
FlagsByName ==
  {Undefined, Text(<<"a">>), Text(<<"a", "DASH", "b">>), Text(<<"c">>),
   Text(<<"d">>), Text(<<"z">>)}

\* push.ts lines 160-162: key=value and a line feed per variable, "" in
\* the place of the value of a secret
RECURSIVE FetchedEnvBlank(_)
FetchedEnvBlank(variables) ==
  IF variables = <<>> THEN <<>>
  ELSE variables[1].key \o <<"EQ">>
         \o (IF variables[1].isSecret THEN <<"DQ", "DQ">> ELSE variables[1].value)
         \o <<"NL">> \o FetchedEnvBlank(Tail(variables))

ByNameInit ==
  /\ dotEnvFile \in {NoFile} \cup
       {[exists |-> TRUE, text |-> t] :
          t \in {ExampleLocal, FetchedEnvBlank(ExampleRemote)}}
  /\ environment \in FlagsByName
  /\ pc = "login"
  /\ exit = "running"
  /\ existingEnv = <<>>
  /\ environments = <<>>
  /\ validatedEnvironment = Null
  /\ environmentVariables = <<>>
  /\ remoteSecrets = <<>>
  /\ parsedRemoteVars = <<>>
  /\ compareableRemoteVars = <<>>
  /\ parsedLocalVars = <<>>
  /\ localVariables = <<>>
  /\ compareableLocalVars = <<>>
  /\ matchingSecrets = <<>>
  /\ lastIndex = 0
  /\ ui = <<>>
  /\ calls = <<>>
  /\ src = <<>>
  /\ obj = <<>>
  /\ OthersIdle

\* push.ts lines 79-95: the fetch of the environments and their order
FetchEnvironmentsByName ==
  /\ pc = "fetchEnvironments"
  /\ calls' = Append(calls, Call("getStorefrontEnvironments", "storefront"))
  /\ \E storefront \in Fetched({<<>>, EnvironmentsByName}) :
       IF ~storefront.ok
       THEN End("returned") /\ UNCHANGED environments
       ELSE /\ environments' = OrderEnvironments(storefront.list)
            /\ pc' = "select"
            /\ UNCHANGED exit
  /\ UNCHANGED <<world, existingEnv, validatedEnvironment, reconciled, ui>>

\* the value of the choice of an environment: `${name}-${branch}`
ChoiceValue(e) == Text(e.name \o <<"DASH">> \o e.branch.text)

\* push.ts lines 97-147: the selection, by prompt or by flag, and what is
\* kept of it: [env, branch] = validatedEnvironment?.split('-') ?? [].
\* picked: the place of the chosen choice, 0 for the choice to cancel.
SelectByName ==
  /\ pc = "select"
  /\ LET matchedEnvironments ==
           SelectSeq(environments, LAMBDA e : e.name = environment.text)
         offered == IF ~environment.given THEN environments
                    ELSE matchedEnvironments
         prompted == ~environment.given \/ Len(matchedEnvironments) >= 2
     IN  IF environment.given /\ Len(matchedEnvironments) = 0
         THEN End("exit1") /\ UNCHANGED <<ui, validatedEnvironment>>
         ELSE \E picked \in 0..Len(offered) :
                LET selection == IF picked = 0 THEN Null
                                 ELSE ChoiceValue(offered[picked])
                    validated == IF prompted THEN selection ELSE environment
                    parts     == IF validated.given
                                 THEN Split(validated.text, "DASH") ELSE <<>>
                    env       == IF Len(parts) >= 1 THEN Text(parts[1])
                                 ELSE Undefined
                    branch    == IF Len(parts) >= 2 THEN Text(parts[2])
                                 ELSE Undefined
                IN  /\ prompted \/ picked = 1
                    /\ ui' = IF prompted
                             THEN Append(ui, Rendered("select",
                                    [offered |-> offered, picked |-> picked]))
                             ELSE ui
                    /\ IF (~environment.given /\ ~selection.given)
                            \/ ~env.given \/ env.text = <<>>
                       THEN End("exit1") /\ UNCHANGED validatedEnvironment
                       ELSE /\ validatedEnvironment' =
                                 [env |-> env.text, branch |-> branch]
                            /\ pc' = "fetchVariables"
                            /\ UNCHANGED exit
  /\ UNCHANGED <<world, existingEnv, environments, reconciled, calls>>

\* push.ts lines 150-162: the fetch of the variables of the branch
FetchByName ==
  /\ pc = "fetchVariables"
  /\ calls' = Append(calls, Call("getStorefrontEnvVariables",
                                 validatedEnvironment.branch))
  /\ \E data \in Fetched(RemoteLists) :
       /\ environmentVariables' = data.list
       /\ fetchedEnv' = FetchedEnvBlank(data.list)
       /\ IF Len(data.list) = 0
          THEN End("returned")
          ELSE pc' = "compareByName" /\ UNCHANGED exit
  /\ UNCHANGED <<untouched, parsedLocalVars, lastIndex, ui, rest>>

\* push.ts lines 164-192: the comparison with the local file unless forced,
\* the confirmation and the message
CompareByName ==
  /\ pc = "compareByName"
  /\ \E force \in BOOLEAN, overwrite \in BOOLEAN :
       IF dotEnvFile.exists /\ ~force
       THEN /\ existingEnv' = dotEnvFile.text
            /\ calls' = Append(calls, Call("readFile", "dotEnvPath"))
            /\ IF existingEnv' = fetchedEnv
               THEN /\ ui' = Append(ui, Rendered("info",
                                 "No changes to your environment variables"))
                    /\ End("returned")
               ELSE /\ ui' = ui
                         \o <<Rendered("confirmOverwrite",
                                [env    |-> validatedEnvironment.env,
                                 answer |-> overwrite])>>
                         \o (IF overwrite
                             THEN <<Rendered("pushed", validatedEnvironment.env)>>
                             ELSE <<>>)
                    /\ IF overwrite THEN End("exit0") ELSE End("returned")
       ELSE /\ ui' = Append(ui, Rendered("pushed", validatedEnvironment.env))
            /\ End("exit0")
            /\ UNCHANGED <<existingEnv, calls>>
  /\ UNCHANGED <<dotEnvFile, environment, src, obj, environments,
                 validatedEnvironment, reconciled, others>>

ByNameNext ==
  \/ Login
  \/ FetchEnvironmentsByName
  \/ SelectByName
  \/ FetchByName
  \/ CompareByName

ByNameSpec == ByNameInit /\ [][ByNameNext]_vars

----------------------------------------------------------------------------
(* startMiniOxygenVite: the HMR WebSocket server and channel, and the      *)
(* middleware of /__vite_fetch_module.  One action per callback.           *)

\* the state of the other programs, which the dev server leaves alone
cli ==
  <<dotEnvFile, environment, pc, exit, existingEnv, environments,
    validatedEnvironment, reconciled, ui, calls, src, obj, fetchedEnv, nthRun,
    stored, register>>

\* the sockets that may connect to the HMR port, and the payloads sent
Sockets == 1..MaxClients

Payloads == 1..MaxPayloads

\* line 339: new WebSocketServer(...) listens from the start; nothing else
\* has happened
DevInit == src = <<>> /\ BeforeParse

\* lines 375-410: mf.ready resolves; the channel is added to the Vite server
\* and the listener of 'connection' is set
MfReady ==
  /\ mfReady = "pending"
  /\ mfReady' = "resolved"
  /\ UNCHANGED <<cli, accepted, closed, clients, delivered, responses>>

\* mf.ready rejects: the callback of line 375 never runs
MfFails ==
  /\ mfReady = "pending"
  /\ mfReady' = "rejected"
  /\ UNCHANGED <<cli, accepted, closed, clients, delivered, responses>>

\* a socket connects: the server accepts it and emits 'connection'; the
\* listener of lines 384-409 is there only once mf.ready has resolved
Connect(ws) ==
  /\ ws \notin accepted
  /\ accepted' = accepted \cup {ws}
  /\ clients' = IF mfReady = "resolved" THEN clients \cup {ws} ELSE clients
  /\ UNCHANGED <<cli, mfReady, closed, delivered, responses>>

\* a socket closes: lines 397-399 run for a socket that got its listener of
\* 'close' at line 397, that is, one that went through the listener of
\* 'connection'
Close(ws) ==
  /\ ws \in accepted \ closed
  /\ closed' = closed \cup {ws}
  /\ clients' = clients \ {ws}
  /\ UNCHANGED <<cli, mfReady, accepted, delivered, responses>>

\* lines 485-500: WssHmrChannel.send, called by the Vite server once the
\* channel is added; hmrSend is called once per entry of clients
Send(payload) ==
  /\ mfReady = "resolved"
  /\ \A i \in 1..Len(delivered) : delivered[i].payload # payload
  /\ delivered' = Append(delivered,
                         [payload |-> payload, to |-> clients,
                          open |-> accepted \ closed])
  /\ UNCHANGED <<cli, mfReady, accepted, closed, clients, responses>>

HmrNext ==
  \/ MfReady
  \/ MfFails
  \/ \E ws \in Sockets : Connect(ws)
  \/ \E ws \in Sockets : Close(ws)
  \/ \E payload \in Payloads : Send(payload)

HmrSpec == DevInit /\ [][HmrNext]_vars

\* lines 413-429: the middleware on a request, with or without an id
FetchModule(r) ==
  /\ responses[r] = "none"
  /\ \E id \in {"", "id"} :
       responses' = [responses EXCEPT ![r] =
                       IF id # "" THEN "fetching" ELSE "ended 400"]
  /\ UNCHANGED <<cli, mfReady, accepted, closed, clients, delivered>>

\* lines 422-424: viteServer.ssrFetchModule resolves and the response ends
Resolves(r) ==
  /\ responses[r] = "fetching"
  /\ responses' = [responses EXCEPT ![r] = "ended 200"]
  /\ UNCHANGED <<cli, mfReady, accepted, closed, clients, delivered>>

\* viteServer.ssrFetchModule rejects: the then of line 422 has no second
\* callback and no catch follows it, so nothing runs for the response
Rejects(r) ==
  /\ responses[r] = "fetching"
  /\ responses' = [responses EXCEPT ![r] = "rejected"]
  /\ UNCHANGED <<cli, mfReady, accepted, closed, clients, delivered>>

MiddlewareNext ==
  \/ \E r \in Requests : FetchModule(r)
  \/ \E r \in Requests : Resolves(r)
  \/ \E r \in Requests : Rejects(r)

\* every request that has come is handled, and every promise of
\* ssrFetchModule settles
MiddlewareSpec ==
  /\ DevInit
  /\ [][MiddlewareNext]_vars
  /\ \A r \in Requests : WF_vars(Resolves(r) \/ Rejects(r))

----------------------------------------------------------------------------
(* The action of the register route, one action per stretch of code        *)
(* between two awaits.                                                     *)

\* a field of the form: absent, empty, or one of two texts
FormFields ==
  {[has |-> FALSE, value |-> ""], [has |-> TRUE, value |-> ""],
   [has |-> TRUE, value |-> "p"], [has |-> TRUE, value |-> "q"]}

\* the requests: the method, whether the body reads as form data, the form
RegisterRequests ==
  [method : {"POST", "GET"}, readable : BOOLEAN, email : FormFields,
   password : FormFields, passwordConfirm : FormFields]

\* what the dev server and the command line programs hold, which the
\* action leaves alone
outside ==
  <<dotEnvFile, environment, pc, exit, existingEnv, environments,
    validatedEnvironment, reconciled, ui, calls, src, obj, fetchedEnv, nthRun,
    stored, dev>>

\* return json({error}, {status}), or the exception that leaves the action
Return(status) == step' = "done" /\ response' = status

\* lines 29-35: a request comes; the method is checked before the form is
\* read
Action ==
  /\ step = "idle"
  /\ \E r \in RegisterRequests : request' = r
  /\ IF request'.method # "POST"
     THEN Return("405")
     ELSE step' = "formData" /\ UNCHANGED response
  /\ UNCHANGED <<outside, results, session>>

\* lines 35-57: request.formData() is awaited outside the try; then the
\* passwords and the inputs are checked and customerCreate is sent
FormData ==
  /\ step = "formData"
  /\ IF ~request.readable
     THEN Return("threw")
     ELSE LET email == IF request.email.has THEN request.email.value ELSE ""
              validPasswords == /\ request.password.has
                                /\ request.password.value # ""
                                /\ request.passwordConfirm.has
                                /\ request.passwordConfirm.value # ""
                                /\ request.password.value
                                     = request.passwordConfirm.value
              validInputs == /\ email # ""
                             /\ request.password.has
                             /\ request.password.value # ""
          IN  IF ~validPasswords \/ ~validInputs
              THEN Return("400")
              ELSE step' = "customerCreate" /\ UNCHANGED response
  /\ UNCHANGED <<outside, request, results, session>>

\* lines 53-68: customerCreate rejects, or resolves with or without user
\* errors and with or without the id of a customer; then the token mutation
\* is sent
CustomerCreate ==
  /\ step = "customerCreate"
  /\ \E customerCreate \in
          [rejected : BOOLEAN, customerUserErrors : 0..1, id : {"", "gid"}] :
       /\ results' = Append(results, customerCreate)
       /\ IF \/ customerCreate.rejected
             \/ customerCreate.customerUserErrors # 0
             \/ customerCreate.id = ""
          THEN Return("400")
          ELSE step' = "accessTokenCreate" /\ UNCHANGED response
  /\ UNCHANGED <<outside, request, session>>

\* lines 70-90: the token mutation rejects or resolves, with or without an
\* access token; with one, session.set is called and session.commit awaited
AccessTokenCreate ==
  /\ step = "accessTokenCreate"
  /\ \E customerAccessTokenCreate \in
          [rejected : BOOLEAN, accessToken : {"", "token"}] :
       /\ results' = Append(results, customerAccessTokenCreate)
       /\ IF \/ customerAccessTokenCreate.rejected
             \/ customerAccessTokenCreate.accessToken = ""
          THEN Return("400") /\ UNCHANGED session
          ELSE /\ session' = [session EXCEPT !.set = TRUE]
               /\ step' = "commit"
               /\ UNCHANGED response
  /\ UNCHANGED <<outside, request>>

\* lines 92-106: session.commit resolves and the redirect is returned, or
\* it rejects and the catch returns the error
Commit ==
  /\ step = "commit"
  /\ \E rejected \in BOOLEAN :
       IF rejected
       THEN Return("400") /\ UNCHANGED session
       ELSE /\ session' = [session EXCEPT !.committed = TRUE]
            /\ Return("302")
  /\ UNCHANGED <<outside, request, results>>

RegisterNext ==
  \/ Action
  \/ FormData
  \/ CustomerCreate
  \/ AccessTokenCreate
  \/ Commit

RegisterSpec == DevInit /\ [][RegisterNext]_vars

----------------------------------------------------------------------------
(* Properties of runEnvPush                                                *)

IsPush(c) == c.fn = "pushStorefrontEnvVariables"

PushCalls == SelectSeq(calls, IsPush)

CallCount(fn) == Cardinality({i \in 1..Len(calls) : calls[i].fn = fn})

RenderedKinds == {ui[i].kind : i \in 1..Len(ui)}

\* the keys the remote side holds as secrets, read off the fetched list
SecretKeys ==
  {environmentVariables[i].key :
     i \in {j \in 1..Len(environmentVariables) : environmentVariables[j].isSecret}}

KeysOf(pairs) == {pairs[i].key : i \in 1..Len(pairs)}

\* C1: in every push that is made, no variable of the payload has the key
\* of a variable that the remote environment holds as a secret.
C1_NoSecretKeyInPayload ==
  \A i \in 1..Len(calls) :
    IsPush(calls[i]) => KeysOf(calls[i].arg.variables) \cap SecretKeys = {}

\* a push was made although the local file assigns the remote secret S:
\* only T went out
C1_Witness ==
  /\ Len(PushCalls) = 1
  /\ SecretKeys = {<<"S">>}
  /\ KeysOf(parsedLocalVars) = {<<"S">>, <<"T">>}
  /\ KeysOf(PushCalls[1].arg.variables) = {<<"T">>}

\* the matches of LINE in the text, in the order exec finds them
RECURSIVE LineMatches(_, _)
LineMatches(matches, from) ==
  LET m == LineExec(matches, from)
  IN  IF ~m.ok THEN <<>> ELSE <<m>> \o LineMatches(matches, m.end - 1)

\* the keys of a sequence of matches, each once, in the order in which
\* they first appear
RECURSIVE FirstAppearances(_, _)
FirstAppearances(ms, seen) ==
  IF ms = <<>> THEN <<>>
  ELSE IF Includes(seen, ms[1].key) THEN FirstAppearances(Tail(ms), seen)
  ELSE <<ms[1].key>> \o FirstAppearances(Tail(ms), Append(seen, ms[1].key))

KeysInFileOrder(text) ==
  FirstAppearances(LineMatches(MatchAt(NormalizeLineBreaks(text)), 0), <<>>)

\* the pairs of the parsed local file, in the order in which the keys first
\* appear in the file, without the remote secret keys, line feeds written
\* as backslash n
PairsInFileOrder ==
  LET keys == SelectSeq(KeysInFileOrder(existingEnv), LAMBDA k : k \notin SecretKeys)
  IN  [i \in 1..Len(keys) |->
         [key |-> keys[i], value |-> EscapeNewlines(Get(parsedLocalVars, keys[i]))]]

\* C2: the payload of a push is the pairs of the parsed local file in the
\* order in which the keys first appear in the file, minus the remote secret
\* keys, every line feed of a value written as backslash n.
C2_PayloadInFileOrder ==
  \A i \in 1..Len(calls) :
    IsPush(calls[i]) => calls[i].arg.variables = PairsInFileOrder

\* the variable fetch was made, a named environment was validated and the
\* run is past the identical / changed decision
Decided ==
  /\ pc \in {"push", "done"}
  /\ CallCount("getStorefrontEnvVariables") = 1
  /\ validatedEnvironment.name # "undefined"

\* the non-secret remote variables as the fetch listed them, line feeds
\* written as backslash n
RemotePairs ==
  LET plain == SelectSeq(environmentVariables, LAMBDA v : ~v.isSecret)
  IN  [i \in 1..Len(plain) |->
         [key |-> plain[i].key, value |-> EscapeNewlines(plain[i].value)]]

PairSet(pairs) == {pairs[i] : i \in 1..Len(pairs)}

\* C3: when the two canonical texts are equal, character for character and
\* in order, the run ends with status 0 without a confirmation prompt and
\* without a push; two sides that hold the same pairs in a different order
\* are not taken to be identical.
C3_IdenticalExactAndOrdered ==
  Decided =>
    /\ compareableLocalVars = compareableRemoteVars =>
         /\ exit = "exit0"
         /\ "confirmPush" \notin RenderedKinds
         /\ Len(PushCalls) = 0
    /\ ( /\ PairSet(RemotePairs) = PairSet(PairsInFileOrder)
         /\ RemotePairs # PairsInFileOrder )
       => "info" \notin RenderedKinds

\* the remote list and the parsed local mapping with every secret value
\* blanked: what is left of the two sides when the secret values are unknown
RedactedRemote ==
  [i \in 1..Len(environmentVariables) |->
     IF environmentVariables[i].isSecret
     THEN [environmentVariables[i] EXCEPT !.value = <<>>]
     ELSE environmentVariables[i]]

RedactedLocal ==
  [i \in 1..Len(parsedLocalVars) |->
     IF parsedLocalVars[i].key \in SecretKeys
     THEN [parsedLocalVars[i] EXCEPT !.value = <<>>]
     ELSE parsedLocalVars[i]]

\* C4: the identical / changed decision and the two texts that are diffed
\* do not depend on the value of any secret: they are what they would be
\* with every secret value blanked, on the remote side and in the local
\* file; the decision is taken on these texts and the prompt shows them.
C4_SecretValuesDoNotCount ==
  /\ pc = "confirm" =>
       /\ compareableRemoteVars =
            CompareableRemoteVars(parseEnvFile(RemoteVars(RedactedRemote)))
       /\ compareableLocalVars =
            CompareableLocalVars(
              LocalVariables(RedactedLocal, RemoteSecrets(RedactedRemote)))
  /\ Decided =>
       /\ "info" \in RenderedKinds <=> compareableLocalVars = compareableRemoteVars
       /\ "confirmPush" \in RenderedKinds <=> compareableLocalVars # compareableRemoteVars
       /\ \A i \in 1..Len(ui) :
            ui[i].kind = "confirmPush" =>
              /\ ui[i].detail.old = compareableRemoteVars
              /\ ui[i].detail.new = compareableLocalVars

\* the remote side holds S as a secret with a value, the local file gives
\* S another value, and the two sides come out identical
C4_Witness ==
  /\ Decided
  /\ "info" \in RenderedKinds
  /\ \E i \in 1..Len(environmentVariables) :
       /\ environmentVariables[i].isSecret
       /\ environmentVariables[i].value # <<>>
       /\ HasKey(parsedLocalVars, environmentVariables[i].key)
       /\ Get(parsedLocalVars, environmentVariables[i].key)
            # environmentVariables[i].value
  /\ Len(environmentVariables) = 2

\* the secret keys reported by a rendering: the list after "cannot be
\* pushed", nothing when the list is empty
ReportedSecrets(r) ==
  IF r.kind = "info" THEN r.detail ELSE r.detail.secrets

\* C5: the secret keys reported to the user, with "No changes" or in the
\* confirmation prompt, are the remote secret keys that are also keys of
\* the parsed local file: each of them once, and no other key.
C5_MatchingSecretsIsIntersection ==
  \A i \in 1..Len(ui) :
    ui[i].kind \in {"info", "confirmPush"} =>
      LET reported == ReportedSecrets(ui[i])
      IN  /\ PairSet(reported) = SecretKeys \cap KeysOf(parsedLocalVars)
          /\ Cardinality(PairSet(reported)) = Len(reported)

\* a secret key that the local file does not assign is not reported, next
\* to one case where the secret key is reported
C5_Witness ==
  /\ \E i \in 1..Len(ui) :
       /\ ui[i].kind = "confirmPush"
       /\ ReportedSecrets(ui[i]) = <<>>
  /\ SecretKeys = {<<"S">>}
  /\ KeysOf(parsedLocalVars) = {<<"T">>, <<"1">>}

\* the local file assigns the remote secret S, and S is reported
C5_WitnessReported ==
  /\ \E i \in 1..Len(ui) :
       /\ ui[i].kind = "info"
       /\ ReportedSecrets(ui[i]) = << <<"S">> >>
  /\ SecretKeys = {<<"S">>}

\* C6: when there is no .env file at the path, the run warns 'Local .env
\* file not found' and ends with status 1 before the file is read, before
\* the login and before any remote call.
C6_MissingFileWarned ==
  (~dotEnvFile.exists /\ pc # "checkFile") =>
    /\ pc = "done"
    /\ exit = "exit1"
    /\ ui = <<Rendered("warning", "Local .env file not found")>>
    /\ calls = <<>>

\* the environments were fetched and the fetch gave nothing or an empty list
NoEnvironments ==
  /\ CallCount("getStorefrontEnvironments") >= 1
  /\ environments = <<>>

\* C7: when the fetch of the environments fails or lists no environment,
\* the run ends with status 1 after that one fetch: no select prompt, no
\* fetch of the remote variables, no push.
C7_NoEnvironmentsEndsRun ==
  NoEnvironments =>
    /\ pc = "done"
    /\ exit = "exit1"
    /\ CallCount("getStorefrontEnvironments") = 1
    /\ "select" \notin RenderedKinds
    /\ CallCount("getStorefrontEnvVariables") = 0
    /\ Len(PushCalls) = 0

\* the fetch listed no environment
C7_Witness ==
  /\ NoEnvironments
  /\ ui = <<Rendered("warning", "No environments found")>>
  /\ exit = "exit1"

\* the fetch failed
C7_WitnessFailed ==
  /\ NoEnvironments
  /\ ui = <<Rendered("warning", "Failed to fetch environments")>>
  /\ exit = "exit1"

\* the environments of the fetched list that carry the name of the flag
NamedEnvironments == SelectSeq(environments, LAMBDA e : e.name = environment)

\* the flag names two environments or more and the run is past the selection
Ambiguous ==
  /\ environment # "undefined"
  /\ Len(NamedEnvironments) >= 2
  /\ pc # "select"

SelectPrompts == SelectSeq(ui, LAMBDA r : r.kind = "select")

\* C8: when the --environment flag names two environments or more, one
\* select prompt is shown, its choices are exactly these environments, and
\* the environment of the variable fetch and of the push is the one whose
\* id was chosen; when the choice is the id of none of them, there is no push.
C8_AmbiguousNameIsAsked ==
  Ambiguous =>
    /\ Len(SelectPrompts) = 1
    /\ SelectPrompts[1].detail.choices = Choices(NamedEnvironments)
    /\ LET answer == SelectPrompts[1].detail.answer
           chosen == {i \in 1..Len(NamedEnvironments) :
                        NamedEnvironments[i].id = answer}
       IN  IF chosen = {}
           THEN /\ validatedEnvironment = NoEnvironment
                /\ Len(PushCalls) = 0
           ELSE /\ \A i \in chosen :
                     /\ validatedEnvironment = NamedEnvironments[i]
                     /\ \A j \in 1..Len(calls) :
                          calls[j].fn = "getStorefrontEnvVariables" =>
                            calls[j].arg = NamedEnvironments[i].branch
                /\ \A j \in 1..Len(calls) :
                     IsPush(calls[j]) => calls[j].arg.environmentId = answer

\* two environments are named staging, the second of the prompt was chosen
\* and the push went to it
C8_Witness ==
  /\ Ambiguous
  /\ Len(PushCalls) = 1
  /\ SelectPrompts[1].detail.answer = NamedEnvironments[2].id
  /\ PushCalls[1].arg.environmentId = NamedEnvironments[2].id

\* the prompt was left without a choice: the run ends with status 1
C8_WitnessCancelled ==
  /\ Ambiguous
  /\ SelectPrompts[1].detail.answer = "null"
  /\ pc = "done"
  /\ exit = "exit1"

----------------------------------------------------------------------------
(* Properties of parseEnvFile                                              *)

SrcMatches == LineMatches(MatchAt(NormalizeLineBreaks(src)), 0)

\* the last match of the text that has the key
LastMatchOf(ms, key) == ms[Max({i \in 1..Len(ms) : ms[i].key = key})]

\* C9: the mapping parseEnvFile returns has each key of a matching line
\* once, with the value of the last line that has the key; 'A=1\nA=2'
\* gives A = '2'; a key with no value gets the empty string.
C9_LastOccurrenceWins ==
  pc = "parsed" =>
    LET ms == SrcMatches
    IN  /\ KeysOf(obj) = KeysOf(ms)
        /\ Cardinality(KeysOf(obj)) = Len(obj)
        /\ \A key \in KeysOf(ms) :
             LET last == LastMatchOf(ms, key)
             IN  /\ Get(obj, key) = LineValue(last)
                 /\ ~last.hasValue => Get(obj, key) = <<>>

\* 'A=1\nA=2' was parsed and A is '2'
C9_Witness ==
  /\ pc = "parsed"
  /\ src = <<"A", "EQ", "1", "NL", "A", "EQ", "2">>
  /\ obj = <<[key |-> <<"A">>, value |-> <<"2">>]>>

\* 'A=' and 'A' next to an assignment: the key with no value is ''
C9_WitnessEmpty ==
  /\ pc = "parsed"
  /\ src = <<"A", "EQ", "1", "NL", "A", "EQ">>
  /\ obj = <<[key |-> <<"A">>, value |-> <<>>]>>

\* a value that is enclosed in double quotes: it begins and ends with one
IsDoubleQuoted(value) ==
  /\ Len(value) >= 2
  /\ value[1] = "DQ"
  /\ value[Len(value)] = "DQ"

\* C10: backslash n and backslash r are expanded only in a double-quoted
\* value; a value that is unquoted, single-quoted, backtick-quoted, or that
\* only begins with a double quote, keeps its backslashes: it is the trimmed
\* text of the line without its surrounding quotes, nothing else changed.
C10_ExpansionOnlyInDoubleQuotes ==
  pc = "parsed" =>
    LET ms == SrcMatches
    IN  \A key \in KeysOf(ms) :
          LET last == LastMatchOf(ms, key)
              raw  == Trim(IF last.hasValue THEN last.value ELSE <<>>)
          IN  ~IsDoubleQuoted(raw) => Get(obj, key) = StripQuotes(raw)

\* s without the white space it begins with
RECURSIVE DropSpace(_)
DropSpace(s) ==
  IF s # <<>> /\ s[1] \in WhiteSpace THEN DropSpace(Tail(s)) ELSE s

\* the first place of s that holds c from place i on, Len(s) + 1 without one
FirstFrom(s, i, c) == Min({j \in i..Len(s) : s[j] = c} \cup {Len(s) + 1})

\* what follows a value on its line: white space, then nothing or a comment
IsLineTail(s) == DropSpace(s) = <<>> \/ DropSpace(s)[1] = "HASH"

\* the text after the = of a one-line text A=<value>
Assigned == SubSeq(src, 3, Len(src))

\* the assigned text is a quoted value: an opening quote, a closing quote of
\* the same kind with no backslash between the two, and only a comment after
IsQuotedValue(t) ==
  /\ t # <<>>
  /\ t[1] \in Quotes
  /\ FirstFrom(t, 2, t[1]) <= Len(t)
  /\ \A i \in 2..(FirstFrom(t, 2, t[1]) - 1) : t[i] # "BS"
  /\ IsLineTail(SubSeq(t, FirstFrom(t, 2, t[1]) + 1, Len(t)))

\* C11: of a single-, double- or backtick-quoted value the text between the
\* quotes is stored, a # between them included; of an unquoted value the
\* text before the first # is stored, trimmed of surrounding white space.
C11_QuotesStrippedCommentsDropped ==
  pc = "parsed" =>
    LET t == DropSpace(Assigned)
    IN  /\ HasKey(obj, <<"A">>)
        /\ IsQuotedValue(t) =>
             Get(obj, <<"A">>) = SubSeq(t, 2, FirstFrom(t, 2, t[1]) - 1)
        /\ (t = <<>> \/ t[1] \notin Quotes) =>
             Get(obj, <<"A">>) =
               Trim(SubSeq(Assigned, 1, FirstFrom(Assigned, 1, "HASH") - 1))

\* A=`#`# was parsed: the # between the backticks is kept, the comment
\* after them is not
C11_Witness ==
  /\ pc = "parsed"
  /\ Assigned = <<"BT", "HASH", "BT", "HASH">>
  /\ obj = <<[key |-> <<"A">>, value |-> <<"HASH">>]>>

\* A= a#a was parsed: the unquoted value is a
C11_WitnessUnquoted ==
  /\ pc = "parsed"
  /\ Assigned = <<"SP", "a", "HASH", "a">>
  /\ obj = <<[key |-> <<"A">>, value |-> <<"a">>]>>

\* the lines of a text: what stands between its line feeds
RECURSIVE LinesOf(_)
LinesOf(s) ==
  LET n == FirstFrom(s, 1, "NL")
  IN  IF n > Len(s) THEN <<s>>
      ELSE <<SubSeq(s, 1, n - 1)>> \o LinesOf(SubSeq(s, n + 1, Len(s)))

\* a sequence without its element i
Without(seq, i) == SubSeq(seq, 1, i - 1) \o SubSeq(seq, i + 1, Len(seq))

\* LINE matches nowhere in the line taken alone, with or without its line
\* feed: a blank line, a comment, a line without a key or an assignment
IsSkipped(line) ==
  /\ LineMatches(MatchAt(line), 0) = <<>>
  /\ LineMatches(MatchAt(line \o <<"NL">>), 0) = <<>>

\* C12: a line that LINE does not match (blank, comment-only, malformed)
\* contributes no entry, and the mapping parseEnvFile returns for the text
\* is the one it returns for the text without that line.
C12_UnmatchedLinesSkipped ==
  pc = "parsed" =>
    LET lines == LinesOf(src)
    IN  \A i \in 1..Len(lines) :
          IsSkipped(lines[i]) =>
            obj = parseEnvFile(JoinLines(Without(lines, i), <<"NL">>))

\* the text with every line feed replaced by the line break of another
\* convention
WithLineBreaks(text, break) == ReplaceLineFeeds(text, break)

\* C13: the mapping parseEnvFile returns for a text with line feeds is the
\* one it returns for the same text with carriage return + line feed line
\* breaks, and for the same text with carriage return line breaks.
C13_LineEndingsAgree ==
  pc = "parsed" =>
    /\ obj = parseEnvFile(WithLineBreaks(src, <<"CR", "NL">>))
    /\ obj = parseEnvFile(WithLineBreaks(src, <<"CR">>))

\* A=1, then A='x and y' on two lines: a line break between two
\* assignments and one inside a quoted value
C13_Witness ==
  /\ pc = "parsed"
  /\ src = <<"A", "EQ", "1", "NL", "A", "EQ", "SQ", "x", "NL", "y", "SQ">>
  /\ obj = <<[key |-> <<"A">>, value |-> <<"x", "NL", "y">>]>>

\* the mapping a text of key=value lines was written from: each line cut at
\* its first =
Written ==
  IF src = <<>> THEN <<>>
  ELSE LET lines == LinesOf(src)
       IN  [i \in 1..Len(lines) |->
              [key   |-> SubSeq(lines[i], 1, FirstFrom(lines[i], 1, "EQ") - 1),
               value |-> SubSeq(lines[i], FirstFrom(lines[i], 1, "EQ") + 1,
                                Len(lines[i]))]]

\* two lists of {key, value} hold the same entries, each key once
SameMapping(a, b) == PairSet(a) = PairSet(b) /\ Len(a) = Len(b)

\* C14: a mapping with non-empty keys and values without =, #, quote and
\* line break, written as one key=value line per entry and parsed, comes
\* back with exactly its entries.
C14_RoundTrip ==
  pc = "parsed" => SameMapping(obj, Written)

\* a key that LINE takes whole and that names a property: word characters,
\* dots and dashes, and not __proto__
IsPlainKey(key) ==
  /\ \A i \in 1..Len(key) : key[i] \notin NonKey
  /\ key # ProtoKey

\* a value that trim leaves as it is
IsTrimmed(value) ==
  value = <<>> \/ (value[1] \notin WhiteSpace /\ value[Len(value)] \notin WhiteSpace)

\* C14, amended: the mapping comes back with exactly its entries when, in
\* addition, its keys are made of word characters, dots and dashes and are
\* not __proto__, and its values neither begin nor end with white space.
C14_RoundTripOfPlainEntries ==
  (/\ pc = "parsed"
   /\ \A i \in 1..Len(Written) :
        IsPlainKey(Written[i].key) /\ IsTrimmed(Written[i].value))
    => SameMapping(obj, Written)

\* the mapping {A: 'x y', 1: '\n'} was written and parsed; the parsed
\* object lists 1 first
C14_Witness ==
  /\ pc = "parsed"
  /\ Written = << [key |-> <<"A">>, value |-> <<"x", "SP", "y">>],
                  [key |-> <<"1">>, value |-> <<"BS", "n">>] >>
  /\ obj = << [key |-> <<"1">>, value |-> <<"BS", "n">>],
              [key |-> <<"A">>, value |-> <<"x", "SP", "y">>] >>

\* the parsed object written out as key=value lines and parsed again
Reparsed == parseEnvFile(CompareableLocalVars(obj))

\* C15: for every text, the mapping parseEnvFile returns, written as
\* key=value lines and parsed again, is the same mapping.
C15_Idempotent ==
  pc = "parsed" => Reparsed = obj

\* a value that a key=value line gives back: no quote, no #, no line break
\* in it and no white space at its ends
IsPlainValue(value) ==
  /\ \A i \in 1..Len(value) :
       value[i] \notin {"SQ", "DQ", "BT", "HASH", "NL", "CR"}
  /\ IsTrimmed(value)

\* C15, amended: the mapping parseEnvFile returns, written as key=value
\* lines and parsed again, is the same mapping when none of its values
\* holds a quote character, a # or a line break or begins or ends with
\* white space.
C15_IdempotentOnPlainValues ==
  (pc = "parsed" /\ \A i \in 1..Len(obj) : IsPlainValue(obj[i].value))
    => Reparsed = obj

\* A='\n' was parsed to the two characters backslash, n, and the line A=\n
\* gives them back
C15_Witness ==
  /\ pc = "parsed"
  /\ src = <<"A", "EQ", "SQ", "BS", "n", "SQ">>
  /\ obj = <<[key |-> <<"A">>, value |-> <<"BS", "n">>]>>
  /\ Reparsed = obj

\* the one-line forms of a remote value: its line feeds written as the two
\* characters backslash, n, its carriage returns left or written as
\* backslash, r
RECURSIVE EscapeReturns(_)
EscapeReturns(s) ==
  IF s = <<>> THEN <<>>
  ELSE (IF s[1] = "CR" THEN <<"BS", "r">> ELSE <<s[1]>>) \o EscapeReturns(Tail(s))

OneLineForms(value) ==
  {EscapeNewlines(value), EscapeReturns(EscapeNewlines(value))}

\* C16: for a non-empty list of non-secret remote variables with distinct
\* keys, compareableRemoteVars has as many lines as there are such
\* variables and each variable has its line key=value there, whatever the
\* value, line-break characters included.
C16_OneLinePerRemoteVariable ==
  LET plain == SelectSeq(environmentVariables, LAMBDA v : ~v.isSecret)
      lines == LinesOf(compareableRemoteVars)
  IN  (pc = "confirm" /\ plain # <<>>)
        => /\ Len(lines) = Len(plain)
           /\ \A i \in 1..Len(plain) :
                \E j \in 1..Len(lines) :
                  \E value \in OneLineForms(plain[i].value) :
                    lines[j] = plain[i].key \o <<"EQ">> \o value

\* C18: a call of parseEnvFile depends on its text only, although every
\* call runs the one global expression LINE: no call leaves a position in
\* LINE.lastIndex behind, and the second call of a run, on the local text,
\* returns what a parse from the start of that text returns, whatever the
\* remote text of the first call was.
C18_CallsShareNoState ==
  /\ lastIndex = 0
  /\ pc = "confirm" => parsedLocalVars = parseEnvFile(existingEnv)

\* the first call parsed a remote text with an entry, the second a local
\* file with two
C18_Witness ==
  /\ pc = "confirm"
  /\ parsedRemoteVars # <<>>
  /\ Len(parsedLocalVars) = 2
  /\ parsedLocalVars = parseEnvFile(existingEnv)

\* the answers given to the confirmation prompt of lines 208-220
ConfirmAnswers ==
  LET asked == SelectSeq(ui, LAMBDA r : r.kind = "confirmPush")
  IN  [i \in 1..Len(asked) |-> asked[i].detail.answer]

\* C19: pushStorefrontEnvVariables is called at most once in a run, and
\* only after the confirmation prompt returned true; after the answer no
\* the run has ended with status 0 and without a push.
C19_PushOnlyAfterConfirmation ==
  /\ Len(PushCalls) <= 1
  /\ PushCalls # <<>> => ConfirmAnswers = <<TRUE>>
  /\ FALSE \in PairSet(ConfirmAnswers)
       => pc = "done" /\ exit = "exit0" /\ PushCalls = <<>>

\* the prompt was answered yes and the push was made
C19_Witness ==
  /\ ConfirmAnswers = <<TRUE>>
  /\ Len(PushCalls) = 1

\* the prompt was answered no
C19_WitnessDeclined ==
  /\ ConfirmAnswers = <<FALSE>>
  /\ pc = "done" /\ exit = "exit0" /\ PushCalls = <<>>

\* the flag was given, environments were fetched, none bears the name of
\* the flag, and the run is past the selection
Unmatched ==
  /\ environment # "undefined"
  /\ environments # <<>>
  /\ NamedEnvironments = <<>>
  /\ pc # "select"

\* C20: every push goes to the id of an environment of the fetched list,
\* and with the --environment flag given to one whose name is the flag; a
\* flag that names no environment ends the run with status 1 before any
\* fetch of the variables and any push.
C20_PushTargetsFetchedEnvironment ==
  /\ \A i \in 1..Len(PushCalls) :
       \E j \in 1..Len(environments) :
         /\ environments[j].id = PushCalls[i].arg.environmentId
         /\ environment # "undefined" => environments[j].name = environment
  /\ Unmatched =>
       /\ pc = "done"
       /\ exit = "exit1"
       /\ CallCount("getStorefrontEnvVariables") = 0
       /\ PushCalls = <<>>

\* --environment production: the push went to the one environment of that
\* name
C20_Witness ==
  /\ environment = "production"
  /\ Len(PushCalls) = 1
  /\ PushCalls[1].arg.environmentId = "gid3"

\* --environment missing, with environments fetched
C20_WitnessUnmatched ==
  /\ Unmatched
  /\ environment = "missing"
  /\ exit = "exit1"

----------------------------------------------------------------------------
(* Properties of the other revisions and programs                          *)

\* C21: in the revision that pushes every parsed variable, a run in which
\* the local text equals the fetched text and "No changes to your
\* environment variables" is reported makes no push.
C21_NoPushWhenNoChanges ==
  (existingEnv = fetchedEnv /\ "info" \in RenderedKinds) => PushCalls = <<>>

\* the push returned user errors: the warning of lines 231-236 was rendered
UploadFailed ==
  \E i \in 1..Len(ui) :
    /\ ui[i].kind = "warning"
    /\ ui[i].detail = "Failed to upload and save environment variables"

\* C22: "Push to ... successful." is rendered only when the push returned
\* no user errors; when it returned some, the failure is reported and
\* success is not.
C22_SuccessOnlyWithoutUserErrors ==
  UploadFailed => "success" \notin RenderedKinds

\* the second run has fetched the variables of the environment that the
\* first run pushed to
FetchedAgain ==
  /\ nthRun = 2
  /\ validatedEnvironment.id = stored.environmentId
  /\ CallCount("getStorefrontEnvVariables") = 1

\* C23: when a run has pushed a payload to an environment without secrets
\* and the remote side stores exactly that payload, a second run on the
\* same file finds the two comparable texts identical and makes no push.
C23_SecondRunFindsNoChange ==
  FetchedAgain =>
    /\ compareableRemoteVars = compareableLocalVars
    /\ PushCalls = <<>>

\* the environment the run of push.ts is about, once it is past the
\* selection: the one picked in the prompt, or the one the flag names when
\* it names one only
SelectedByName ==
  LET asked == SelectSeq(ui, LAMBDA r : r.kind = "select")
      named == SelectSeq(environments, LAMBDA e : e.name = environment.text)
  IN  IF asked # <<>>
      THEN IF asked[1].detail.picked = 0 THEN <<>>
           ELSE <<asked[1].detail.offered[asked[1].detail.picked]>>
      ELSE IF pc # "select" /\ environment.given /\ Len(named) = 1 THEN named
      ELSE <<>>

\* the names shown in the confirmation and in "Pushed to ..."
ShownNames ==
  {ui[i].detail.env : i \in {j \in 1..Len(ui) : ui[j].kind = "confirmOverwrite"}}
    \cup {ui[i].detail : i \in {j \in 1..Len(ui) : ui[j].kind = "pushed"}}

\* C24: in push.ts, for the environment picked in the prompt or named by a
\* flag that names one only, the branch passed to getStorefrontEnvVariables
\* is the branch of that environment (none for an environment without
\* branch) and the name in the messages is its whole name, dashes in names
\* and branches included.
C24_BranchAndNameOfSelection ==
  \A e \in PairSet(SelectedByName) :
    /\ \A i \in 1..Len(calls) :
         calls[i].fn = "getStorefrontEnvVariables" =>
           /\ calls[i].arg.given = e.branch.given
           /\ e.branch.given => calls[i].arg.text = e.branch.text
    /\ ShownNames \subseteq {e.name}

\* C25: hmrChannel.clients holds exactly the accepted sockets that have
\* not closed, whether they connected before or after mf.ready resolved,
\* and every payload sent went once to each of them and to no closed one.
C25_ClientsAreTheOpenSockets ==
  /\ clients = accepted \ closed
  /\ \A i \in 1..Len(delivered) : delivered[i].to = delivered[i].open

\* C26: every request to /__vite_fetch_module gets its response ended in
\* the end: with status 400 without an id, and with an id whether
\* ssrFetchModule resolves or rejects.
C26_EveryResponseEnds ==
  \A r \in Requests :
    (responses[r] # "none") ~> (responses[r] \in {"ended 200", "ended 400"})

\* the action got a request
Received == step # "idle"

\* all that has to hold of a request and of the answers of the storefront
\* before the session is written
Registered ==
  /\ Received
  /\ request.method = "POST"
  /\ request.password.has /\ request.password.value # ""
  /\ request.passwordConfirm.has
  /\ request.passwordConfirm.value = request.password.value
  /\ request.email.has /\ request.email.value # ""
  /\ Len(results) = 2
  /\ ~results[1].rejected
  /\ results[1].customerUserErrors = 0 /\ results[1].id # ""
  /\ ~results[2].rejected /\ results[2].accessToken # ""

\* session.set and session.commit come only after all the conditions
SessionOnlyWhenRegistered ==
  (session.set \/ session.committed) => Registered

\* C27: session.set and session.commit happen only after a POST with equal
\* non-empty passwords, a non-empty email, a created customer without user
\* errors and an access token; every other path returns an error response,
\* 405 for another method and 400 otherwise, and leaves the session alone.
C27_SessionOnlyAfterRegistration ==
  /\ SessionOnlyWhenRegistered
  /\ (step = "done" /\ ~Registered) =>
       /\ response = (IF request.method # "POST" THEN "405" ELSE "400")
       /\ session = [set |-> FALSE, committed |-> FALSE]

\* what holds instead: a POST whose body does not read as form data makes the
\* action throw, since request.formData() is awaited before the try; every
\* other refusal is the response of the claim, and the session is left alone
RefusedOrThrown ==
  /\ SessionOnlyWhenRegistered
  /\ (step = "done" /\ ~Registered) =>
       /\ response = (IF request.method # "POST" THEN "405"
                      ELSE IF ~request.readable THEN "threw" ELSE "400")
       /\ session = [set |-> FALSE, committed |-> FALSE]

\* a registration went through: the session was set and committed and the
\* redirect returned
RegistrationDone ==
  /\ Registered
  /\ session = [set |-> TRUE, committed |-> TRUE]
  /\ response = "302"

====
